---- MODULE Spec2Model ----
(***************************************************************************)
(* Model of the hex-terrain viewer: the per-hex terrain field, the camera  *)
(* cell tracker, the intro sequence and the progressive petal reveal.      *)
(*                                                                         *)
(* Conventions                                                             *)
(*   - a hex is the pair <<x, y>> of its axial coordinates (hexx::Hex);    *)
(*   - a world position is given by its fractional axial coordinates in    *)
(*     units of 1/PosDenom hex: <<a, b>> stands for the world point whose  *)
(*     fractional hex coordinates are (a/PosDenom, b/PosDenom);            *)
(*   - lengths are in tenths of a world unit, times in tenths of a second; *)
(*   - a point of the ground plane, where the terrain field computes with  *)
(*     it, is the pair <<X, Z>> of integers that stands for the point      *)
(*     x = X / (2 * Fine) tenths, z = Z * sqrt(3) / (2 * Fine) tenths: the *)
(*     centres and the corners of all hexes lie on this lattice, and the   *)
(*     squared distance of two points is (dX^2 + 3 * dZ^2) / (4 * Fine^2)  *)
(*     square tenths; arithmetic on these numbers is exact;                *)
(*   - Option<T> is None (the empty tuple) or Some(x) (the 1-tuple of x).  *)
(***************************************************************************)
EXTENDS Integers, Sequences, FiniteSets, Bags, TLC

\* ---------------------------------------------------------------- bounds
\* cfg.grid_radius (the program's default is 20)
GridRadius == 2
\* petals_cfg.reveal_radius (the program's default is 2)
RevealRadius == 1
\* resolution of world positions: PosDenom sub-steps per hex
PosDenom == 2
\* the camera stays within WalkRange sub-steps of the origin on each axis
WalkRange == 2
\* the camera moves at most MaxStep sub-steps per frame
MaxStep == 1
\* a frame lasts 1..MaxDt tenths of a second
MaxDt == 2
\* largest radius of a generated field (SpecReveal, SpecField)
MaxFieldRadius == 3
\* largest reveal radius (SpecReveal)
MaxRevealRadius == 3
\* reveal centres lie within MaxCenterDist of the origin (SpecReveal)
MaxCenterDist == 1
\* number of reveal passes in a behaviour (SpecReveal)
MaxReveals == 2
\* resolution of the ground plane: 2 * Fine lattice steps per tenth
Fine == 2
\* largest radius of a field whose geometry is queried (SpecGeom)
MaxGeomRadius == 1
\* the height noise seeds tried are the default one and MaxSeedShift more
MaxSeedShift == 1
\* resolution of the interpolation weights: 1 / dist_sq is kept in units of
\* 4 * Fine^2 / WeightScale per square tenth
WeightScale == 1048576
\* calls made on one FlowerState
MaxCalls == 4
\* petal entities of one hex
MaxPetals == 2
\* leaves and hexes that spawn their edge lines in one behaviour
MaxLeaves == 2
\* the player stays within MaxViewDist hexes of the origin (SpecMissing)
MaxViewDist == 4
\* frames of a behaviour (SpecMissing)
MaxFrames == 2
\* longest duration of a phase of the intro, in tenths (SpecIntro)
MaxDuration == 3

\* ------------------------------------------------------ program constants
TiltUpDuration == 15
HighlightDelay == 4
TiltDownDuration == 4
HeightNoiseSeed == 42
RadiusNoiseSeed == 137
MaxHeight == 200
MinHexRadius == 2
MaxHexRadius == 26
PointSpacing == 40
\* pole_gap, in hundredths of a world unit
PoleGap == 5
\* the numbers an f32 holds exactly have 24 significant bits
F32Precision == 16777216

\* Option<T>: None, or Some(x) for x in T
None == << >>
Some(x) == << x >>

Abs(n) == IF n < 0 THEN -n ELSE n
Max(a, b) == IF a >= b THEN a ELSE b
Min(a, b) == IF a <= b THEN a ELSE b

\* ------------------------------------------------------------------ hexx
ZERO == <<0, 0>>

HexAdd(h, d) == <<h[1] + d[1], h[2] + d[2]>>

\* Hex::NEIGHBORS_COORDS, in EdgeDirection order (index 0..5)
NEIGHBORS_COORDS ==
  <<  <<1, 0>>, <<1, -1>>, <<0, -1>>, <<-1, 0>>, <<-1, 1>>, <<0, 1>>  >>

\* hex.neighbor(EdgeDirection::ALL_DIRECTIONS[e])
Neighbor(h, e) == HexAdd(h, NEIGHBORS_COORDS[e + 1])

\* hex.all_neighbors()
AllNeighbors(h) == [i \in 1..6 |-> Neighbor(h, i - 1)]

\* EdgeDirection::const_neg
ConstNeg(e) == (e + 3) % 6

\* EdgeDirection::vertex_directions: the vertex counter-clockwise of the
\* edge, then the one clockwise of it
VertexDirections(e) == << e, (e + 5) % 6 >>

\* VertexDirection::edge_directions: the two edges that meet at the vertex
EdgeDirections(v) == << v, (v + 1) % 6 >>

\* GridVertex::coordinates: the origin first, then the two hexes across the
\* edges that meet at the vertex
Coordinates(origin, v) ==
  << origin,
     Neighbor(origin, EdgeDirections(v)[1]),
     Neighbor(origin, EdgeDirections(v)[2]) >>

\* GridVertex::equivalent: same junction, whatever the origin
Equivalent(o1, v1, o2, v2) ==
  LET c1 == Coordinates(o1, v1)
      c2 == Coordinates(o2, v2)
  IN  {c1[1], c1[2], c1[3]} = {c2[1], c2[2], c2[3]}

\* Hex::length, Hex::unsigned_distance_to
HexLength(h) == (Abs(h[1]) + Abs(h[2]) + Abs(h[1] + h[2])) \div 2
HexDistance(a, b) == HexLength(<<a[1] - b[1], a[2] - b[2]>>)

\* shapes::hexagon(center, radius), enumerated column by column as
\* Hex::range does
Hexagon(center, radius) ==
  UNION { { HexAdd(center, <<x, y>>) :
              y \in Max(-radius, -x - radius) .. Min(radius, radius - x) } :
          x \in -radius .. radius }

\* f32::round: to the nearest integer, halves away from zero (n/d, d > 0)
RoundDiv(n, d) ==
  IF n >= 0 THEN (2 * n + d) \div (2 * d)
  ELSE -((2 * (-n) + d) \div (2 * d))

\* Hex::round on the fractional coordinates (a/d, b/d), d > 0
HexRoundOver(a, b, d) ==
  LET xr == RoundDiv(a, d)
      yr == RoundDiv(b, d)
      xf == a - d * xr
      yf == b - d * yr
  IN  IF Abs(xf) >= Abs(yf)
      THEN << xr + RoundDiv(2 * xf + yf, 2 * d), yr >>
      ELSE << xr, yr + RoundDiv(2 * yf + xf, 2 * d) >>

\* Hex::round on the fractional coordinates (a/PosDenom, b/PosDenom)
HexRound(a, b) == HexRoundOver(a, b, PosDenom)

\* layout.world_pos_to_hex(pos)
WorldPosToHex(p) == HexRound(p[1], p[2])

\* layout.hex_to_world_pos(hex)
HexToWorldPos(h) == << PosDenom * h[1], PosDenom * h[2] >>

\* HexLayout::center_aligned_hex_corners of the unit layout (flat hexes):
\* corner i lies at the angle of VertexDirection i, between the edges i and
\* i + 1; given as << 2 * cos, 2 * sin / sqrt(3) >>
UnitCorners ==
  <<  <<2, 0>>, <<1, -1>>, <<-1, -1>>, <<-2, 0>>, <<-1, 1>>, <<1, 1>>  >>

\* TerrainHexLayout::hex_to_world_pos: the centre of the hex on the lattice,
\* x = spacing * 3/2 * hex.x, z = spacing * sqrt(3) * (hex.x / 2 + hex.y)
LayoutHexToWorldPos(spacing, hex) ==
  << 3 * spacing * Fine * hex[1], spacing * Fine * (hex[1] + 2 * hex[2]) >>

\* an inverse layout matrix that leaves the skew of the axes out
LayoutWorldPosToHexNoSkew(spacing, p) ==
  HexRoundOver(2 * p[1], 3 * p[2], 6 * spacing * Fine)

\* TerrainHexLayout::world_pos_to_hex: the inverse of the layout matrix,
\* hex.x = 2/3 * x / spacing, hex.y = (sqrt(3)/3 * z - x/3) / spacing, and
\* then Hex::round
LayoutWorldPosToHex(spacing, p) ==
  HexRoundOver(2 * p[1], 3 * p[2] - p[1], 6 * spacing * Fine)

\* ----------------------------------------------------------- noise, math
\* Fbm<Perlin>::get at the hex's world position: a deterministic function of
\* the seed and the position, here with values in halves (-2..2 for -1..1)
FbmGet(seed, h) == ((seed + 2 * h[1] + 3 * h[2]) % 5) - 2

\* the spacing of the f32 numbers at the magnitude a
RECURSIVE F32Ulp(_)
F32Ulp(a) == IF a < F32Precision THEN 1 ELSE 2 * F32Ulp(a \div 2)

\* the f32 nearest to the integer n, ties to the even significand: the
\* result of an f32 operation whose exact result is n
RoundF32(n) ==
  LET a == Abs(n)
      ulp == F32Ulp(a)
      q == a \div ulp
      r == a % ulp
      m == IF 2 * r > ulp \/ (2 * r = ulp /\ q % 2 = 1) THEN q + 1 ELSE q
  IN  IF n < 0 THEN -(m * ulp) ELSE m * ulp

\* math::map_noise_to_range, noise_val in halves: the f32 operations
\* max - min, ((noise_val + 1) / 2) * (max - min) and min + that, each
\* rounded; (noise_val + 1) / 2 is (n2 + 2) / 4, and the quotient by 4 is
\* exact for the values the model passes
MapNoiseToRange(n2, min, max) ==
  RoundF32(min + RoundF32(((n2 + 2) * RoundF32(max - min)) \div 4))

\* pole_radius_factor, as a rational
PoleRadiusFactor == << 6, 100 >>

\* a pole_geometry that keeps the pole of height 0
PoleGeometryStrict(hex_radius, face_height, radius_factor, gap) ==
  LET pole_height == face_height - gap
  IN  IF pole_height < 0 THEN None
      ELSE Some([radius |-> << hex_radius * radius_factor[1],
                              radius_factor[2] >>,
                 height |-> pole_height,
                 y_center |-> << pole_height, 2 >>])

\* math::pole_geometry; the lengths in hundredths, radius_factor and the
\* fields radius and y_center of the result rationals << n, d >>
PoleGeometry(hex_radius, face_height, radius_factor, gap) ==
  LET pole_height == face_height - gap
  IN  IF pole_height <= 0 THEN None
      ELSE Some([radius |-> << hex_radius * radius_factor[1],
                              radius_factor[2] >>,
                 height |-> pole_height,
                 y_center |-> << pole_height, 2 >>])

\* ------------------------------------------------------- grid generation
\* generate_grid, first loop: heights and radii of every hex of the region
GridHeights(radius) ==
  [h \in Hexagon(ZERO, radius) |->
     MapNoiseToRange(FbmGet(HeightNoiseSeed, h), 0, MaxHeight)]

GridRadii(radius) ==
  [h \in Hexagon(ZERO, radius) |->
     MapNoiseToRange(FbmGet(RadiusNoiseSeed, h), MinHexRadius, MaxHexRadius)]

\* generate_grid, second loop: the vertex map, keyed by (hex, index 0..5);
\* the vertex unit_offsets[i] * radius away from the centre of its hex, at the
\* height of the hex, is kept as << i, radius, height >>
GridVertexPositions(radius, hs, rs) ==
  [k \in Hexagon(ZERO, radius) \X (0..5) |->
     << k[2], rs[k[1]], hs[k[1]] >>]

\* a generation that registers no disc for the hexes of the outer ring
GridHexEntitiesInner(radius) == Hexagon(ZERO, radius - 1)

\* generate_grid, third loop: one disc per hex, registered in HexEntities
GridHexEntities(radius) == Hexagon(ZERO, radius)

\* generate_grid, third loop: the hexes whose disc gets a HeightPole (the
\* heights and radii of the grid are in tenths)
GridPoles(radius, hs, rs) ==
  {hex \in Hexagon(ZERO, radius) :
     PoleGeometry(10 * rs[hex], 10 * hs[hex], PoleRadiusFactor, PoleGap)
       # None}

GenerateGrid(radius) ==
  LET hs == GridHeights(radius)
      rs == GridRadii(radius)
  IN  [heights |-> hs, radii |-> rs,
       vertex_positions |-> GridVertexPositions(radius, hs, rs),
       hex_entities |-> GridHexEntities(radius),
       poles |-> GridPoles(radius, hs, rs)]

\* ----------------------------------------------------------------- state
VARIABLES
  cfg,          \* configuration: grid_radius, reveal_radius, render_mode
  grid,         \* HexGrid: heights, radii, vertex_positions
  hexEntities,  \* HexEntities.map: the hexes that have a disc
  pos,          \* camera translation (x, z)
  cell,         \* CameraCell: current, previous, changed
  drawn,        \* DrawnCells.cells
  quads,        \* spawned QuadLeaf entities: a bag of <<owner hex, edge>>
  tris,         \* spawned TriLeaf entities: a bag of <<owner hex, vertex>>
  intro,        \* IntroSequence
  introDone,    \* spawn_petals' Local<bool> intro_done
  inspector,    \* InspectorActive.0
  pc,           \* the system the frame is about to run
  tracked,      \* what track_camera_cell did in the current frame
  reveals,      \* history: number of reveal passes made (SpecReveal)
  lastReveal,   \* history: centre and new hexes of the latest pass (SpecReveal)
  probe,        \* the latest lookup in the terrain field and its results
  flower,       \* the FlowerState component of a disc (SpecFlower)
  flowerLog,    \* history: the calls made on flower (SpecFlower)
  edgeLines     \* the edge-line entities spawned (SpecEdges)

vars == << cfg, grid, hexEntities, pos, cell, drawn, quads, tris, intro,
           introDone, inspector, pc, tracked, reveals, lastReveal, probe,
           flower, flowerLog, edgeLines >>

\* the variables of the components that are modelled on their own
aux == << flower, flowerLog, edgeLines >>

\* FlowerState::Naked, the state a disc is spawned with
Naked == [tag |-> "Naked", petals |-> << >>]

\* the components that are modelled on their own, untouched
InitAux ==
  /\ flower = Naked
  /\ flowerLog = [calls |-> << >>, filled |-> FALSE]
  /\ edgeLines = {}

\* the variables the frame loop leaves alone
hist == << reveals, lastReveal, probe >>

RenderModes == {"Perimeter", "CrossGap", "Full"}

\* ------------------------------------------------------- petal spawning
\* a quad spawner without the neighbour-exists guard
QuadLeafSpawnsUnguarded(g, he, hex, edge_index) ==
  /\ <<hex, VertexDirections(edge_index)[1]>> \in DOMAIN g.vertex_positions
  /\ <<hex, VertexDirections(edge_index)[2]>> \in DOMAIN g.vertex_positions

\* spawn_quad_leaf up to its last `?`: does the quad petal get spawned
QuadLeafSpawns(g, he, hex, edge_index) ==
  LET neighbor == Neighbor(hex, edge_index)
      vertex_dirs == VertexDirections(edge_index)
      opp_vertex_dirs == VertexDirections(ConstNeg(edge_index))
      v0_idx == vertex_dirs[1]
      v1_idx == vertex_dirs[2]
      n0_idx == opp_vertex_dirs[2]
      n1_idx == opp_vertex_dirs[1]
  IN  /\ neighbor \in DOMAIN g.heights
      /\ neighbor \in he
      /\ <<hex, v0_idx>> \in DOMAIN g.vertex_positions
      /\ <<hex, v1_idx>> \in DOMAIN g.vertex_positions
      /\ <<neighbor, n0_idx>> \in DOMAIN g.vertex_positions
      /\ <<neighbor, n1_idx>> \in DOMAIN g.vertex_positions

\* a quad petal node hung under the disc of the neighbour
QuadLeafNodeOfNeighbor(hex, edge_index) ==
  [kind |-> "QuadLeaf", parent |-> Neighbor(hex, edge_index), mesh |-> FALSE,
   perimeter |-> 2, cross_gap |-> 2, face |-> 1]

\* spawn_quad_leaf of the terrain plugin past its last `?`: the node it
\* spawns, with the disc it is added to as a child, whether the node itself
\* carries a mesh, and its children: perimeter edge lines, cross-gap edge
\* lines and faces
QuadLeafNode(hex, edge_index) ==
  [kind |-> "QuadLeaf", parent |-> hex, mesh |-> FALSE,
   perimeter |-> 2, cross_gap |-> 2, face |-> 1]

\* spawn_quad_leaf of the petals plugin, whose children depend on the render
\* mode
ModeQuadLeafNode(mode, hex, edge_index) ==
  [kind |-> "QuadLeaf", parent |-> hex, mesh |-> FALSE,
   perimeter |-> IF mode \in {"Perimeter", "Full"} THEN 2 ELSE 0,
   cross_gap |-> IF mode \in {"CrossGap", "Full"} THEN 2 ELSE 0,
   face |-> IF mode \in {"CrossGap", "Full"} THEN 1 ELSE 0]

\* spawn_tri_leaf past its last `?`: the node carries the mesh of the
\* triangle itself and gets no children
TriLeafNode(hex, vertex_index) ==
  [kind |-> "TriLeaf", parent |-> hex, mesh |-> TRUE,
   perimeter |-> 0, cross_gap |-> 0, face |-> 0]

\* the loop over VertexDirection::ALL_DIRECTIONS from dir on: the first
\* direction whose vertex of hex is the junction (o, v)
RECURSIVE FirstEquivalentDir(_, _, _, _)
FirstEquivalentDir(dir, hex, o, v) ==
  IF dir > 5 THEN None
  ELSE IF Equivalent(hex, dir, o, v) THEN Some(dir)
  ELSE FirstEquivalentDir(dir + 1, hex, o, v)

\* find_equivalent_vertex: the vertex of hex at the junction (o, v)
FindEquivalentVertex(g, hex, o, v) ==
  LET dir == FirstEquivalentDir(0, hex, o, v)
  IN  IF dir = None THEN None
      ELSE IF <<hex, dir[1]>> \in DOMAIN g.vertex_positions
           THEN Some(g.vertex_positions[<<hex, dir[1]>>])
           ELSE None

\* spawn_tri_leaf up to its last `?`: does the tri petal get spawned
TriLeafSpawns(g, he, hex, vertex_index) ==
  LET coords == Coordinates(hex, vertex_index)
  IN  /\ \A i \in 1..3 : coords[i] \in DOMAIN g.heights
      /\ coords[1] = hex
      /\ <<coords[1], vertex_index>> \in DOMAIN g.vertex_positions
      /\ FindEquivalentVertex(g, coords[2], hex, vertex_index) # None
      /\ FindEquivalentVertex(g, coords[3], hex, vertex_index) # None
      /\ coords[2] \in he
      /\ coords[3] \in he

\* spawn_tri_leaf of the petals plugin: nothing outside CrossGap and Full
ModeTriLeafSpawns(mode, g, he, hex, vertex_index) ==
  /\ mode \in {"CrossGap", "Full"}
  /\ TriLeafSpawns(g, he, hex, vertex_index)

\* ownership of every edge, and of three consecutive vertices
AllEdges == {0, 1, 2, 3, 4, 5}
ThreeVertices == {0, 1, 2}

\* the edges and vertices a hex owns
QuadEdges == {0, 2, 4}
TriVertices == {0, 1}

\* a ring loop that does not consult the drawn set
RingNewHexesNoDrawnCheck(g, dr, center, reveal_radius) ==
  {hex \in Hexagon(center, reveal_radius) : hex \in DOMAIN g.heights}

\* the ring loop of spawn_petals: the hexes newly marked drawn
RingNewHexes(g, dr, center, reveal_radius) ==
  {hex \in Hexagon(center, reveal_radius) :
     ~ (hex \notin DOMAIN g.heights \/ hex \in dr)}

\* a ring loop that gives up on a hex at its first suppressed quad petal
RingQuadsAllOrNothing(g, he, dr, center, reveal_radius) ==
  {k \in RingNewHexes(g, dr, center, reveal_radius) \X QuadEdges :
     /\ k[1] \in he
     /\ \A e \in QuadEdges : QuadLeafSpawns(g, he, k[1], e)}

\* the ring loop of spawn_petals: the quad petals it spawns
RingQuads(g, he, dr, center, reveal_radius) ==
  {k \in RingNewHexes(g, dr, center, reveal_radius) \X QuadEdges :
     /\ k[1] \in he
     /\ QuadLeafSpawns(g, he, k[1], k[2])}

\* the ring loop of spawn_petals: the tri petals it spawns
RingTris(g, he, dr, center, reveal_radius) ==
  {k \in RingNewHexes(g, dr, center, reveal_radius) \X TriVertices :
     /\ k[1] \in he
     /\ TriLeafSpawns(g, he, k[1], k[2])}

\* the ring loop of spawn_petals in the petals plugin, whose tri petals
\* depend on the render mode
ModeRingTris(mode, g, he, dr, center, reveal_radius) ==
  {k \in RingNewHexes(g, dr, center, reveal_radius) \X TriVertices :
     /\ k[1] \in he
     /\ ModeTriLeafSpawns(mode, g, he, k[1], k[2])}

\* ---------------------------------------------------------------- camera
\* the bounded set of camera positions: a strip on one side of the origin
Positions == (-WalkRange..WalkRange) \X (0..WalkRange)

\* the displacements move_camera can make in one frame
Steps ==
  {d \in (-MaxStep..MaxStep) \X (-MaxStep..MaxStep) :
     Abs(d[1] + d[2]) <= MaxStep}

\* a tracker that does not treat its first invocation as a transition
TrackCellNoFirstFrame(c, new_hex) ==
  IF new_hex # c.current
  THEN [current |-> new_hex, previous |-> Some(c.current), changed |-> TRUE]
  ELSE [c EXCEPT !.changed = FALSE]

\* the body of track_camera_cell / track_active_hex
TrackCell(c, new_hex) ==
  LET first_frame == c.previous = None
  IN  IF new_hex # c.current \/ first_frame
      THEN [current |-> new_hex, previous |-> Some(c.current), changed |-> TRUE]
      ELSE [c EXCEPT !.changed = FALSE]

\* the run conditions of the (move_camera, track_camera_cell) chain
CameraChainRuns == intro.done /\ ~ inspector

\* ----------------------------------------------------------------- intro
\* IntroSequence::new
IntroNew ==
  [phase |-> "TiltUp", timer |-> 0, highlighting_enabled |-> FALSE,
   initial_draw_triggered |-> FALSE, done |-> FALSE]

\* IntroConfig::default, the durations in tenths of a second
DefaultIntroConfig ==
  [tilt_up_duration |-> TiltUpDuration,
   highlight_delay |-> HighlightDelay,
   tilt_down_duration |-> TiltDownDuration]

\* a timer that holds the delta of the last frame only
AdvanceLastDelta(timer, dt) == dt

\* run_intro: intro.timer += time.delta_secs()
Advance(timer, dt) == timer + dt

\* run_intro: t = (timer / duration).min(1.0) and then t >= 1.0; for a
\* duration of zero the quotient is infinite or NaN, and min gives 1.0 for
\* both; for a negative duration t is not positive
TiltReached(timer, duration) ==
  IF duration = 0 THEN TRUE
  ELSE IF duration < 0 THEN FALSE
  ELSE timer >= duration

\* a phase match that goes from TiltUp past a delay of zero
IntroStepWithSkip(c, i, dt) ==
  LET timer == i.timer + dt
  IN  CASE i.phase = "TiltUp" ->
             IF TiltReached(timer, c.tilt_up_duration)
             THEN [i EXCEPT !.phase = IF c.highlight_delay = 0
                                      THEN "TiltDown" ELSE "HighlightDelay",
                            !.timer = 0,
                            !.highlighting_enabled = TRUE,
                            !.initial_draw_triggered = TRUE]
             ELSE [i EXCEPT !.timer = timer]
        [] i.phase = "HighlightDelay" ->
             IF timer >= c.highlight_delay
             THEN [i EXCEPT !.phase = "TiltDown", !.timer = 0]
             ELSE [i EXCEPT !.timer = timer]
        [] i.phase = "TiltDown" ->
             IF TiltReached(timer, c.tilt_down_duration)
             THEN [i EXCEPT !.phase = "Done", !.timer = timer, !.done = TRUE]
             ELSE [i EXCEPT !.timer = timer]
        [] OTHER -> i

\* the phase match of run_intro for the configuration c, dt the frame's
\* delta
IntroStepWith(c, i, dt) ==
  LET timer == Advance(i.timer, dt)
  IN  CASE i.phase = "TiltUp" ->
             IF TiltReached(timer, c.tilt_up_duration)
             THEN [i EXCEPT !.phase = "HighlightDelay", !.timer = 0,
                            !.highlighting_enabled = TRUE,
                            !.initial_draw_triggered = TRUE]
             ELSE [i EXCEPT !.timer = timer]
        [] i.phase = "HighlightDelay" ->
             IF timer >= c.highlight_delay
             THEN [i EXCEPT !.phase = "TiltDown", !.timer = 0]
             ELSE [i EXCEPT !.timer = timer]
        [] i.phase = "TiltDown" ->
             IF TiltReached(timer, c.tilt_down_duration)
             THEN [i EXCEPT !.phase = "Done", !.timer = timer, !.done = TRUE]
             ELSE [i EXCEPT !.timer = timer]
        [] OTHER -> i

\* the phase match of run_intro with the default configuration
IntroStep(i, dt) == IntroStepWith(DefaultIntroConfig, i, dt)

\* run_intro: nothing happens in the phase Done, and nothing without the
\* one camera entity
RunIntroOf(c, camera, i, dt) ==
  IF i.phase = "Done" THEN i
  ELSE IF ~ camera THEN i
  ELSE IntroStepWith(c, i, dt)

\* ------------------------------------------------------- the frame loop
\* the state after the Startup schedule: setup_visuals has spawned the
\* camera above the origin, generate_grid has built the grid
Init ==
  /\ cfg \in [grid_radius : {GridRadius}, reveal_radius : {RevealRadius},
              render_mode : RenderModes]
  /\ LET g == GenerateGrid(cfg.grid_radius)
     IN  /\ grid = [heights |-> g.heights, radii |-> g.radii,
                    vertex_positions |-> g.vertex_positions]
         /\ hexEntities = g.hex_entities
  /\ pos = <<0, 0>>
  /\ cell = [current |-> ZERO, previous |-> None, changed |-> FALSE]
  /\ drawn = {}
  /\ quads = EmptyBag
  /\ tris = EmptyBag
  /\ intro = IntroNew
  /\ introDone = FALSE
  /\ inspector = FALSE
  /\ pc = "toggle_inspector"
  /\ tracked = "none"
  /\ reveals = 0
  /\ lastReveal = None
  /\ probe = None
  /\ InitAux

\* toggle_inspector: Tab switches between running and inspecting, and does
\* nothing while the intro plays
ToggleInspector(tab) ==
  /\ pc = "toggle_inspector"
  /\ inspector' = IF tab /\ intro.done THEN ~ inspector ELSE inspector
  /\ tracked' = "none"
  /\ pc' = "run_intro"
  /\ UNCHANGED << cfg, grid, hexEntities, pos, cell, drawn, quads, tris,
                  intro, introDone, hist, aux >>

\* run_intro
RunIntro(dt) ==
  /\ pc = "run_intro"
  /\ intro' = IF intro.phase = "Done" THEN intro ELSE IntroStep(intro, dt)
  /\ pc' = "move_camera"
  /\ UNCHANGED << cfg, grid, hexEntities, pos, cell, drawn, quads, tris,
                  introDone, inspector, tracked, hist, aux >>

\* move_camera: WASD moves the camera in the XZ plane
MoveCamera(delta) ==
  /\ pc = "move_camera"
  /\ CameraChainRuns
  /\ HexAdd(pos, delta) \in Positions
  /\ pos' = HexAdd(pos, delta)
  /\ pc' = "track_camera_cell"
  /\ UNCHANGED << cfg, grid, hexEntities, cell, drawn, quads, tris, intro,
                  introDone, inspector, tracked, hist, aux >>

\* track_camera_cell
TrackCameraCell ==
  /\ pc = "track_camera_cell"
  /\ cell' = TrackCell(cell, WorldPosToHex(pos))
  /\ tracked' = IF cell'.changed THEN "transition" ELSE "same"
  /\ pc' = "spawn_petals"
  /\ UNCHANGED << cfg, grid, hexEntities, pos, drawn, quads, tris, intro,
                  introDone, inspector, hist, aux >>

\* the chain is skipped while the intro plays or the inspector is open
CameraChainSkipped ==
  /\ pc = "move_camera"
  /\ ~ CameraChainRuns
  /\ tracked' = "skipped"
  /\ pc' = "spawn_petals"
  /\ UNCHANGED << cfg, grid, hexEntities, pos, cell, drawn, quads, tris,
                  intro, introDone, inspector, hist, aux >>

\* a reveal that only ever makes the initial draw
PetalsCenterInitialOnly(done, i, c) ==
  IF ~ done /\ i.initial_draw_triggered THEN Some(ZERO) ELSE None

\* a reveal that makes the initial draw in every frame after the trigger
PetalsCenterEveryFrame(done, i, c) ==
  IF i.initial_draw_triggered THEN Some(ZERO)
  ELSE IF c.changed THEN Some(c.current)
  ELSE None

\* spawn_petals: the centre of this frame's reveal, None for no reveal
PetalsCenter(done, i, c) ==
  IF ~ done /\ i.initial_draw_triggered THEN Some(ZERO)
  ELSE IF c.changed THEN Some(c.current)
  ELSE None

\* a reveal that keeps only the hexes and petals of its latest pass
SpawnPetalsForgetful ==
  /\ pc = "spawn_petals"
  /\ LET center == PetalsCenter(introDone, intro, cell)
     IN  /\ introDone' = (introDone \/ intro.initial_draw_triggered)
         /\ IF center = None
            THEN UNCHANGED << drawn, quads, tris >>
            ELSE /\ drawn' = RingNewHexesNoDrawnCheck(
                       grid, drawn, center[1], cfg.reveal_radius)
                 /\ quads' = SetToBag(
                       RingQuads(grid, hexEntities, {}, center[1],
                                 cfg.reveal_radius))
                 /\ tris' = SetToBag(
                       ModeRingTris(cfg.render_mode, grid, hexEntities,
                                    {}, center[1], cfg.reveal_radius))
  /\ pc' = "toggle_inspector"
  /\ UNCHANGED << cfg, grid, hexEntities, pos, cell, intro, inspector,
                  tracked, hist, aux >>

\* spawn_petals
SpawnPetals ==
  /\ pc = "spawn_petals"
  /\ LET center == PetalsCenter(introDone, intro, cell)
     IN  /\ introDone' = (introDone \/ intro.initial_draw_triggered)
         /\ IF center = None
            THEN UNCHANGED << drawn, quads, tris >>
            ELSE /\ drawn' = drawn \cup
                       RingNewHexes(grid, drawn, center[1], cfg.reveal_radius)
                 /\ quads' = quads (+) SetToBag(
                       RingQuads(grid, hexEntities, drawn, center[1],
                                 cfg.reveal_radius))
                 /\ tris' = tris (+) SetToBag(
                       ModeRingTris(cfg.render_mode, grid, hexEntities,
                                    drawn, center[1], cfg.reveal_radius))
  /\ pc' = "toggle_inspector"
  /\ UNCHANGED << cfg, grid, hexEntities, pos, cell, intro, inspector,
                  tracked, hist, aux >>

Next ==
  \/ \E tab \in BOOLEAN : ToggleInspector(tab)
  \/ \E dt \in 1..MaxDt : RunIntro(dt)
  \/ \E delta \in Steps : MoveCamera(delta)
  \/ TrackCameraCell
  \/ CameraChainSkipped
  \/ SpawnPetals

Spec == Init /\ [][Next]_vars

\* ------------------------------------------------ the terrain field
\* a field of the shape of a square, not of a hexagon
FromSettingsSquare(radius) ==
  [heights |-> [h \in (-radius..radius) \X (-radius..radius) |-> 0],
   radii |-> [h \in (-radius..radius) \X (-radius..radius) |-> MinHexRadius]]

\* TerrainHexLayout::from_settings for the grid settings g
FromGridSettings(g) ==
  [heights |->
     [h \in Hexagon(ZERO, g.radius) |->
        MapNoiseToRange(FbmGet(g.height_noise_seed, h), 0, g.max_height)],
   radii |->
     [h \in Hexagon(ZERO, g.radius) |->
        MapNoiseToRange(FbmGet(g.radius_noise_seed, h),
                        g.min_hex_radius, g.max_hex_radius)]]

\* TerrainConfig::default().grid, with the given radius
DefaultGridSettings(radius) ==
  [radius |-> radius,
   point_spacing |-> PointSpacing,
   height_noise_seed |-> HeightNoiseSeed,
   radius_noise_seed |-> RadiusNoiseSeed,
   max_height |-> MaxHeight,
   min_hex_radius |-> MinHexRadius,
   max_hex_radius |-> MaxHexRadius]

\* TerrainHexLayout::from_settings, HGridLayout::from_settings
FromSettings(radius) == FromGridSettings(DefaultGridSettings(radius))

\* TerrainHexLayout::contains
Contains(f, hex) == hex \in DOMAIN f.heights

\* a height lookup that answers zero for a hex that is absent
HeightOrZero(f, hex) ==
  IF hex \in DOMAIN f.heights THEN Some(f.heights[hex]) ELSE Some(0)

\* TerrainHexLayout::height
Height(f, hex) ==
  IF hex \in DOMAIN f.heights THEN Some(f.heights[hex]) ELSE None

\* TerrainHexLayout::radius
Radius(f, hex) ==
  IF hex \in DOMAIN f.radii THEN Some(f.radii[hex]) ELSE None

\* a vertex whose offset from the centre is not scaled by the radius
VertexUnscaled(f, hex, index) ==
  IF hex \notin DOMAIN f.heights THEN None
  ELSE IF hex \notin DOMAIN f.radii THEN None
  ELSE LET center == LayoutHexToWorldPos(PointSpacing, hex)
           offset == << UnitCorners[index + 1][1] * Fine,
                        UnitCorners[index + 1][2] * Fine >>
       IN  Some(<< center[1] + offset[1], f.heights[hex],
                   center[2] + offset[2] >>)

\* TerrainHexLayout::vertex: the corner unit_corners[index] * radius away
\* from the centre of the hex, at the height of the hex, as << x, y, z >>
Vertex(f, hex, index) ==
  IF hex \notin DOMAIN f.heights THEN None
  ELSE IF hex \notin DOMAIN f.radii THEN None
  ELSE LET height == f.heights[hex]
           radius == f.radii[hex]
           center == LayoutHexToWorldPos(PointSpacing, hex)
           offset == << UnitCorners[index + 1][1] * radius * Fine,
                        UnitCorners[index + 1][2] * radius * Fine >>
       IN  Some(<< center[1] + offset[1], height, center[2] + offset[2] >>)

\* the hexes looked up: the largest field and the ring around it
ProbeHexes == Hexagon(ZERO, MaxFieldRadius + 1)

InitField ==
  /\ cfg \in [grid_radius : 0..MaxFieldRadius]
  /\ grid = FromSettings(cfg.grid_radius)
  /\ hexEntities = {}
  /\ pos = <<0, 0>>
  /\ cell = [current |-> ZERO, previous |-> None, changed |-> FALSE]
  /\ drawn = {}
  /\ quads = EmptyBag
  /\ tris = EmptyBag
  /\ intro = IntroNew
  /\ introDone = FALSE
  /\ inspector = FALSE
  /\ pc = "field"
  /\ tracked = "none"
  /\ reveals = 0
  /\ lastReveal = None
  /\ probe = None
  /\ InitAux

\* one call each of contains, height, radius and vertex
Lookup(hex, index) ==
  /\ pc = "field"
  /\ probe' = Some([hex |-> hex, index |-> index,
                    contains |-> Contains(grid, hex),
                    height |-> Height(grid, hex),
                    radius |-> Radius(grid, hex),
                    vertex |-> Vertex(grid, hex, index)])
  /\ UNCHANGED << cfg, grid, hexEntities, pos, cell, drawn, quads, tris,
                  intro, introDone, inspector, pc, tracked, reveals,
                  lastReveal, aux >>

NextField == \E hex \in ProbeHexes : \E index \in 0..5 : Lookup(hex, index)

SpecField == InitField /\ [][NextField]_vars

\* ------------------------------------- the terrain field: its geometry
\* a rational n/d is the pair << n, d >>; d = 0 stands for a NaN
Rat(n) == << n, 1 >>
RatAdd(a, b) == << a[1] * b[2] + b[1] * a[2], a[2] * b[2] >>
RatMul(a, b) == << a[1] * b[1], a[2] * b[2] >>
RatEq(a, b) == a[2] # 0 /\ b[2] # 0 /\ a[1] * b[2] = b[1] * a[2]

\* interpolate_height: the hex of the position first, then its neighbours
HexesToCheck(hex) == << hex >> \o AllNeighbors(hex)

\* interpolate_height: dist_sq, times 4 * Fine^2, in square tenths
DistSq(at, vpos) ==
  LET dx == at[1] - vpos[1]
      dz == at[2] - vpos[3]
  IN  dx * dx + 3 * dz * dz

\* a snap test that only takes the vertex itself
NearOnlyExact(d) == d = 0

\* interpolate_height: dist_sq < 0.001 square units, 1/10 square tenth
Near(d) == 10 * d < 4 * Fine * Fine

\* interpolate_height: weight = 1.0 / dist_sq
Weight(d) == WeightScale \div d

\* an accumulation that counts the vertices instead of adding their weights
AccumulateCount(acc, y, weight) ==
  [acc EXCEPT !.weighted_sum = @ + y * weight, !.weight_total = @ + 1]

\* interpolate_height: weighted_sum += vpos.y * weight; weight_total += weight
Accumulate(acc, y, weight) ==
  [acc EXCEPT !.weighted_sum = @ + y * weight, !.weight_total = @ + weight]

\* a division that does not look at weight_total first
FinishUnchecked(f, hex, acc) ==
  [value |-> << acc.weighted_sum, acc.weight_total >>,
   quotient |-> Some(acc.weight_total)]

\* a division that goes ahead for a weight_total of zero
FinishAtZero(f, hex, acc) ==
  IF acc.weight_total >= 0
  THEN [value |-> << acc.weighted_sum, acc.weight_total >>,
        quotient |-> Some(acc.weight_total)]
  ELSE [value |-> IF hex \in DOMAIN f.heights
                  THEN Rat(f.heights[hex]) ELSE Rat(0),
        quotient |-> None]

\* interpolate_height, after the loops: the weighted mean, or the stored
\* height of the hex of the position, or 0.0; quotient is the number the
\* sum was divided by, None when there was no division
Finish(f, hex, acc) ==
  IF acc.weight_total > 0
  THEN [value |-> << acc.weighted_sum, acc.weight_total >>,
        quotient |-> Some(acc.weight_total)]
  ELSE [value |-> IF hex \in DOMAIN f.heights
                  THEN Rat(f.heights[hex]) ELSE Rat(0),
        quotient |-> None]

\* interpolate_height, the loop over 0..6 for the hex h: the sums after the
\* corners i..5, or the height of a corner that is near the position; next
\* to the sums, acc keeps the numbers divided by: the dist_sq of every weight
RECURSIVE VertexLoop(_, _, _, _, _)
VertexLoop(f, at, h, i, acc) ==
  IF i = 6 THEN [acc |-> acc, nearby |-> None]
  ELSE LET vpos == Vertex(f, h, i)
       IN  IF vpos = None THEN VertexLoop(f, at, h, i + 1, acc)
           ELSE LET dist_sq == DistSq(at, vpos[1])
                IN  IF Near(dist_sq)
                    THEN [acc |-> acc, nearby |-> Some(vpos[1][2])]
                    ELSE VertexLoop(f, at, h, i + 1,
                           [Accumulate(acc, vpos[1][2], Weight(dist_sq))
                              EXCEPT !.divisors = @ \cup {dist_sq}])

\* interpolate_height, the loop over hexes_to_check from the hex number k
\* on, and the end of the function: next to the value returned, the run
\* keeps the numbers it has divided by, the dist_sq of every weight and the
\* weight_total of the final quotient
RECURSIVE InterpolateLoop(_, _, _, _, _)
InterpolateLoop(f, at, hex, k, acc) ==
  IF k = 7
  THEN LET fin == Finish(f, hex, acc)
       IN  [value |-> fin.value, quotient |-> fin.quotient,
            divisors |-> acc.divisors]
  ELSE LET corners == VertexLoop(f, at, HexesToCheck(hex)[k + 1], 0, acc)
       IN  IF corners.nearby # None
           THEN [value |-> Rat(corners.nearby[1]), quotient |-> None,
                 divisors |-> corners.acc.divisors]
           ELSE InterpolateLoop(f, at, hex, k + 1, corners.acc)

\* TerrainHexLayout::interpolate_height, with the numbers divided by
InterpolateRun(f, at) ==
  InterpolateLoop(f, at, LayoutWorldPosToHex(PointSpacing, at), 0,
                  [weighted_sum |-> 0, weight_total |-> 0, divisors |-> {}])

\* TerrainHexLayout::interpolate_height
InterpolateHeight(f, at) == InterpolateRun(f, at).value

\* generate_grid: the placement of the disc of a hex, translation
\* (center.x, height, center.y) and scale (radius, 1, radius); the radius,
\* a length in tenths, is the number radius / 10 as a scale
DiscTransform(f, hex) ==
  LET center_2d == LayoutHexToWorldPos(PointSpacing, hex)
  IN  [translation |->
         << Rat(center_2d[1]), Rat(f.heights[hex]), Rat(center_2d[2]) >>,
       scale |-> << << f.radii[hex], 10 >>, Rat(1), << f.radii[hex], 10 >> >>]

\* an inverse that negates the translation and does not divide it
InverseTransformNoDivide(f, hex) ==
  LET center_2d == LayoutHexToWorldPos(PointSpacing, hex)
  IN  [translation |->
         << Rat(-center_2d[1]), Rat(-f.heights[hex]), Rat(-center_2d[2]) >>,
       scale |-> << << 10, f.radii[hex] >>, Rat(1), << 10, f.radii[hex] >> >>]

\* TerrainHexLayout::inverse_transform, world_space_inverse
InverseTransform(f, hex) ==
  LET center_2d == LayoutHexToWorldPos(PointSpacing, hex)
      height == f.heights[hex]
      radius == f.radii[hex]
  IN  [translation |->
         << << -10 * center_2d[1], radius >>, Rat(-height),
            << -10 * center_2d[2], radius >> >>,
       scale |-> << << 10, radius >>, Rat(1), << 10, radius >> >>]

\* Transform::mul_transform of two transforms without rotation: the child
\* b placed under the parent a
MulTransform(a, b) ==
  [translation |->
     [i \in 1..3 |->
        RatAdd(a.translation[i], RatMul(a.scale[i], b.translation[i]))],
   scale |-> [i \in 1..3 |-> RatMul(a.scale[i], b.scale[i])]]

\* a pole whose x/z scale is not divided by the radius of its disc
PoleLocalTransformNoDescale(f, hex) ==
  LET face_height == f.heights[hex]
      pg == PoleGeometry(10 * f.radii[hex], 10 * face_height,
                         PoleRadiusFactor, PoleGap)[1]
      xz == << 2 * pg.radius[1], 100 * pg.radius[2] >>
  IN  [translation |->
         << Rat(0),
            RatAdd(<< pg.y_center[1], 10 * pg.y_center[2] >>,
                   Rat(-face_height)),
            Rat(0) >>,
       scale |-> << xz, << pg.height, 100 >>, xz >>]

\* generate_grid: the local transform of the HeightPole of a hex, under the
\* disc of the hex: translation (0, pg.y_center - face_height, 0) and scale
\* (pole_radius / 0.5 / radius, pg.height, pole_radius / 0.5 / radius);
\* pole_geometry works in hundredths, the heights of the transforms are in
\* tenths, and a scale is a plain number
PoleLocalTransform(f, hex) ==
  LET face_height == f.heights[hex]
      radius == 10 * f.radii[hex]
      pg == PoleGeometry(radius, 10 * face_height,
                         PoleRadiusFactor, PoleGap)[1]
      xz == << 2 * pg.radius[1], pg.radius[2] * radius >>
  IN  [translation |->
         << Rat(0),
            RatAdd(<< pg.y_center[1], 10 * pg.y_center[2] >>,
                   Rat(-face_height)),
            Rat(0) >>,
       scale |-> << xz, << pg.height, 100 >>, xz >>]

\* the settings a queried field is built from: the default ones, and hexes
\* as large as their cells
GeomSettings ==
  { [DefaultGridSettings(radius) EXCEPT
       !.height_noise_seed = HeightNoiseSeed + shift,
       !.min_hex_radius = range[1], !.max_hex_radius = range[2]] :
    radius \in 0..MaxGeomRadius, shift \in 0..MaxSeedShift,
    range \in { << MinHexRadius, MaxHexRadius >>,
                << PointSpacing, PointSpacing >> } }

\* the hexes the queries start from: the largest field and two rings more
GeomHexes == Hexagon(ZERO, MaxGeomRadius + 2)

\* small steps on the lattice, on and off the snap distance
Jitter == { <<0, 0>>, <<1, 0>>, <<-1, 0>>, <<0, 1>>, <<2, 0>>, <<3, -2>> }

\* the positions queried: at and about the vertices of the field, and at
\* and about the centres and the cell corners of the hexes around it
QueryPoints(f) ==
  LET anchors ==
        { << Vertex(f, k[1], k[2])[1][1], Vertex(f, k[1], k[2])[1][3] >> :
            k \in (DOMAIN f.heights) \X (0..5) }
        \cup { LayoutHexToWorldPos(PointSpacing, h) : h \in GeomHexes }
        \cup { << LayoutHexToWorldPos(PointSpacing, k[1])[1]
                    + UnitCorners[k[2] + 1][1] * PointSpacing * Fine,
                  LayoutHexToWorldPos(PointSpacing, k[1])[2]
                    + UnitCorners[k[2] + 1][2] * PointSpacing * Fine >> :
                 k \in GeomHexes \X (0..5) }
  IN  { << a[1] + j[1], a[2] + j[2] >> : a \in anchors, j \in Jitter }

\* a behaviour of SpecGeom is one query of a field: the queries do not
\* change the field, so that a second one finds what the first one found
InitGeom ==
  /\ cfg \in GeomSettings
  /\ grid = FromGridSettings(cfg)
  /\ hexEntities = {}
  /\ pos = <<0, 0>>
  /\ cell = [current |-> ZERO, previous |-> None, changed |-> FALSE]
  /\ drawn = {}
  /\ quads = EmptyBag
  /\ tris = EmptyBag
  /\ intro = IntroNew
  /\ introDone = FALSE
  /\ inspector = FALSE
  /\ pc = "geom"
  /\ tracked = "none"
  /\ reveals = 0
  /\ lastReveal = None
  /\ probe = None
  /\ InitAux

\* one call of interpolate_height
InterpolateHeightAt(p) ==
  /\ pc = "geom"
  /\ LET run == InterpolateRun(grid, p)
     IN  probe' = Some([op |-> "interpolate_height", pos |-> p,
                        result |-> run.value,
                        divisors |-> run.divisors,
                        quotient |-> run.quotient])
  /\ pc' = "queried"
  /\ UNCHANGED << cfg, grid, hexEntities, pos, cell, drawn, quads, tris,
                  intro, introDone, inspector, tracked, reveals,
                  lastReveal, aux >>

\* one call of inverse_transform for a hex of the field, and the transform
\* a child with it gets under the disc of the hex
InverseTransformOf(hex) ==
  /\ pc = "geom"
  /\ hex \in DOMAIN grid.heights
  /\ probe' = Some([op |-> "inverse_transform", hex |-> hex,
                    combined |-> MulTransform(DiscTransform(grid, hex),
                                              InverseTransform(grid, hex))])
  /\ pc' = "queried"
  /\ UNCHANGED << cfg, grid, hexEntities, pos, cell, drawn, quads, tris,
                  intro, introDone, inspector, tracked, reveals,
                  lastReveal, aux >>

\* generate_grid: the pole of a hex that gets one, placed under the disc of
\* the hex
PoleTransformOf(hex) ==
  /\ pc = "geom"
  /\ hex \in DOMAIN grid.heights
  /\ PoleGeometry(10 * grid.radii[hex], 10 * grid.heights[hex],
                  PoleRadiusFactor, PoleGap) # None
  /\ probe' = Some([op |-> "pole_transform", hex |-> hex,
                    world |-> MulTransform(DiscTransform(grid, hex),
                                           PoleLocalTransform(grid, hex))])
  /\ pc' = "queried"
  /\ UNCHANGED << cfg, grid, hexEntities, pos, cell, drawn, quads, tris,
                  intro, introDone, inspector, tracked, reveals,
                  lastReveal, aux >>

\* hex_to_world_pos and world_pos_to_hex, one after the other
HexToWorldAndBack(hex) ==
  /\ pc = "geom"
  /\ LET world == LayoutHexToWorldPos(cfg.point_spacing, hex)
     IN  probe' = Some([op |-> "roundtrip", hex |-> hex, world |-> world,
                        back |-> LayoutWorldPosToHex(cfg.point_spacing,
                                                     world)])
  /\ pc' = "queried"
  /\ UNCHANGED << cfg, grid, hexEntities, pos, cell, drawn, quads, tris,
                  intro, introDone, inspector, tracked, reveals,
                  lastReveal, aux >>

NextGeom ==
  \/ \E p \in QueryPoints(grid) : InterpolateHeightAt(p)
  \/ \E hex \in GeomHexes : InverseTransformOf(hex)
  \/ \E hex \in GeomHexes : HexToWorldAndBack(hex)
  \/ \E hex \in GeomHexes : PoleTransformOf(hex)

SpecGeom == InitGeom /\ [][NextGeom]_vars

\* ------------------------------------------------- the math helpers
\* noise values, in halves: -1, -0.5, 0, 0.5, 1
NoiseSamples == -2..2

\* range ends, f32 numbers all: small ones, and one past 2^26, where the
\* f32 numbers are 8 apart
RangeSamples == { -8, 0, 4, 12, 4 * F32Precision + 8 }

\* arguments of pole_geometry, in hundredths
PoleRadii == { 20, 260 }
PoleHeights == { -100, 0, 4, 5, 6, 500 }
PoleGaps == { 0, PoleGap }
PoleFactors == { PoleRadiusFactor, << 1, 2 >> }

InitMath ==
  /\ cfg \in [grid_radius : 0..GridRadius]
  /\ grid = GenerateGrid(cfg.grid_radius)
  /\ hexEntities = grid.hex_entities
  /\ pos = <<0, 0>>
  /\ cell = [current |-> ZERO, previous |-> None, changed |-> FALSE]
  /\ drawn = {}
  /\ quads = EmptyBag
  /\ tris = EmptyBag
  /\ intro = IntroNew
  /\ introDone = FALSE
  /\ inspector = FALSE
  /\ pc = "math"
  /\ tracked = "none"
  /\ reveals = 0
  /\ lastReveal = None
  /\ probe = None
  /\ InitAux

\* one call of map_noise_to_range
MapNoiseToRangeOf(n2, min, max) ==
  /\ pc = "math"
  /\ probe' = Some([op |-> "map_noise_to_range", noise2 |-> n2,
                    min |-> min, max |-> max,
                    result |-> MapNoiseToRange(n2, min, max)])
  /\ UNCHANGED << cfg, grid, hexEntities, pos, cell, drawn, quads, tris,
                  intro, introDone, inspector, pc, tracked, reveals,
                  lastReveal, aux >>

\* one call of pole_geometry
PoleGeometryOf(hex_radius, face_height, radius_factor, gap) ==
  /\ pc = "math"
  /\ probe' = Some([op |-> "pole_geometry", hex_radius |-> hex_radius,
                    face_height |-> face_height,
                    radius_factor |-> radius_factor, gap |-> gap,
                    result |-> PoleGeometry(hex_radius, face_height,
                                            radius_factor, gap)])
  /\ UNCHANGED << cfg, grid, hexEntities, pos, cell, drawn, quads, tris,
                  intro, introDone, inspector, pc, tracked, reveals,
                  lastReveal, aux >>

NextMath ==
  \/ \E n2 \in NoiseSamples : \E min \in RangeSamples :
       \E max \in RangeSamples : MapNoiseToRangeOf(n2, min, max)
  \/ \E hex_radius \in PoleRadii : \E face_height \in PoleHeights :
       \E radius_factor \in PoleFactors : \E gap \in PoleGaps :
         PoleGeometryOf(hex_radius, face_height, radius_factor, gap)

SpecMath == InitMath /\ [][NextMath]_vars

\* ------------------------------------------------------ FlowerState
\* FlowerState::needs_petals
NeedsPetals(st) ==
  CASE st.tag = "Naked" -> TRUE
    [] st.tag = "PlayerAbove" -> st.petals = << >>
    [] st.tag = "Revealed" -> FALSE

\* FlowerState::demote
DemoteState(st) ==
  IF st.tag = "PlayerAbove"
    THEN [tag |-> "Revealed", petals |-> st.petals]
    ELSE st

\* a promote that starts PlayerAbove with an empty list
PromoteStateFresh(st) ==
  IF st.tag = "PlayerAbove" THEN st
  ELSE [tag |-> "PlayerAbove", petals |-> << >>]

\* FlowerState::promote
PromoteState(st) ==
  CASE st.tag = "Naked" -> [tag |-> "PlayerAbove", petals |-> << >>]
    [] st.tag = "Revealed" -> [tag |-> "PlayerAbove", petals |-> st.petals]
    [] st.tag = "PlayerAbove" -> st

\* FlowerState::fill_petals takes effect in its first two arms
FillTakesEffect(st) ==
  \/ st.tag = "Naked"
  \/ st.tag = "PlayerAbove" /\ st.petals = << >>

\* FlowerState::fill_petals
FillPetalsState(st, new) ==
  CASE st.tag = "Naked" -> [tag |-> "Revealed", petals |-> new]
    [] st.tag = "PlayerAbove" /\ st.petals = << >> ->
         [tag |-> "PlayerAbove", petals |-> new]
    [] OTHER -> st

\* the petal lists a caller passes: up to MaxPetals entities, none twice
PetalLists ==
  {l \in UNION {[1..n -> 1..MaxPetals] : n \in 0..MaxPetals} :
     \A i, j \in DOMAIN l : i # j => l[i] # l[j]}

InitFlower ==
  /\ cfg = [grid_radius |-> 0]
  /\ grid = GenerateGrid(cfg.grid_radius)
  /\ hexEntities = grid.hex_entities
  /\ pos = <<0, 0>>
  /\ cell = [current |-> ZERO, previous |-> None, changed |-> FALSE]
  /\ drawn = {}
  /\ quads = EmptyBag
  /\ tris = EmptyBag
  /\ intro = IntroNew
  /\ introDone = FALSE
  /\ inspector = FALSE
  /\ pc = "flower"
  /\ tracked = "none"
  /\ reveals = 0
  /\ lastReveal = None
  /\ probe = None
  /\ InitAux

\* a call of promote on the state of one hex
Promote ==
  /\ pc = "flower"
  /\ Len(flowerLog.calls) < MaxCalls
  /\ flower' = PromoteState(flower)
  /\ flowerLog' = [flowerLog EXCEPT !.calls = Append(@, "promote")]
  /\ UNCHANGED << cfg, grid, hexEntities, pos, cell, drawn, quads, tris,
                  intro, introDone, inspector, pc, tracked, reveals,
                  lastReveal, probe, edgeLines >>

\* a call of demote
Demote ==
  /\ pc = "flower"
  /\ Len(flowerLog.calls) < MaxCalls
  /\ flower' = DemoteState(flower)
  /\ flowerLog' = [flowerLog EXCEPT !.calls = Append(@, "demote")]
  /\ UNCHANGED << cfg, grid, hexEntities, pos, cell, drawn, quads, tris,
                  intro, introDone, inspector, pc, tracked, reveals,
                  lastReveal, probe, edgeLines >>

\* a call of fill_petals; the log keeps the calls made and whether a
\* fill_petals has taken effect
FillPetals(new) ==
  /\ pc = "flower"
  /\ Len(flowerLog.calls) < MaxCalls
  /\ flower' = FillPetalsState(flower, new)
  /\ flowerLog' = [calls |-> Append(flowerLog.calls, "fill_petals"),
                   filled |-> flowerLog.filled \/ FillTakesEffect(flower)]
  /\ UNCHANGED << cfg, grid, hexEntities, pos, cell, drawn, quads, tris,
                  intro, introDone, inspector, pc, tracked, reveals,
                  lastReveal, probe, edgeLines >>

NextFlower ==
  \/ Promote
  \/ Demote
  \/ \E new \in PetalLists : FillPetals(new)

SpecFlower == InitFlower /\ [][NextFlower]_vars

\* ------------------------------------------------------- edge lines
\* the settings a grid with edge lines is generated from: the default ones,
\* flat terrain, hexes as large as their cells, and hexes of radius zero
EdgeSettings ==
  { [DefaultGridSettings(radius) EXCEPT
       !.max_height = max_height,
       !.min_hex_radius = range[1], !.max_hex_radius = range[2]] :
    radius \in 0..MaxGeomRadius, max_height \in {MaxHeight, 0},
    range \in { << MinHexRadius, MaxHexRadius >>,
                << PointSpacing, PointSpacing >>, << 0, 0 >> } }

\* generate_grid: the heights, the radii and the six vertex positions of
\* every hex, as << x, y, z >> on the lattice
EdgeGrid(g) ==
  LET f == FromGridSettings(g)
  IN  [heights |-> f.heights, radii |-> f.radii,
       vertex_positions |->
         [k \in (DOMAIN f.heights) \X (0..5) |-> Vertex(f, k[1], k[2])[1]],
       hex_entities |-> DOMAIN f.heights]

\* spawn_edge_line: diff.length(), squared and times 4 * Fine^2, in square
\* tenths
LengthSq(from, to) ==
  LET dx == to[1] - from[1]
      dy == to[2] - from[2]
      dz == to[3] - from[3]
  IN  dx * dx + 3 * dz * dz + 4 * Fine * Fine * dy * dy

\* length < 0.001 units: length_sq * 10000 < 4 * Fine^2, in whole numbers
Degenerate(d) == d < (4 * Fine * Fine + 9999) \div 10000

\* the entity spawn_edge_line spawns: the cuboid of the length of diff,
\* rotated from the X axis to diff.normalize(), which is NaN for a diff of
\* zero; leaf names the call that has asked for it
EdgeLine(leaf, from, to) ==
  [leaf |-> leaf, from |-> from, to |-> to,
   length_sq |-> LengthSq(from, to),
   rotation |-> IF LengthSq(from, to) = 0 THEN "NaN" ELSE "arc"]

\* spawn_edge_line of the terrain and of the petals plugin: the entities
\* spawned for one call
SpawnEdgeLine(leaf, from, to) == { EdgeLine(leaf, from, to) }

\* spawn_edge_line of the edges plugin, which returns early for a short
\* edge
EdgesSpawnEdgeLine(leaf, from, to) ==
  IF Degenerate(LengthSq(from, to)) THEN {}
  ELSE { EdgeLine(leaf, from, to) }

\* spawn_quad_leaf: the four edge lines asked for, as << name, from, to >>
QuadLeafEdges(g, hex, edge_index) ==
  LET neighbor == Neighbor(hex, edge_index)
      vertex_dirs == VertexDirections(edge_index)
      opp_vertex_dirs == VertexDirections(ConstNeg(edge_index))
      va0 == g.vertex_positions[<<hex, vertex_dirs[1]>>]
      va1 == g.vertex_positions[<<hex, vertex_dirs[2]>>]
      vb0 == g.vertex_positions[<<neighbor, opp_vertex_dirs[2]>>]
      vb1 == g.vertex_positions[<<neighbor, opp_vertex_dirs[1]>>]
  IN  { << "edge_a", va0, va1 >>, << "edge_b", vb0, vb1 >>,
        << "cross_a", va0, vb0 >>, << "cross_b", va1, vb1 >> }

\* spawn_cross_gap_geometry, first loop: the cross-gap edge lines asked for
CrossGapEdges(g, hex) ==
  UNION { LET neighbor == Neighbor(hex, e)
              vertex_dirs == VertexDirections(e)
              opp_vertex_dirs == VertexDirections(ConstNeg(e))
          IN  { << << "cross", e, 0 >>,
                   g.vertex_positions[<<hex, vertex_dirs[1]>>],
                   g.vertex_positions[<<neighbor, opp_vertex_dirs[2]>>] >>,
                << << "cross", e, 1 >>,
                   g.vertex_positions[<<hex, vertex_dirs[2]>>],
                   g.vertex_positions[<<neighbor, opp_vertex_dirs[1]>>] >> } :
          e \in {d \in 0..5 : QuadLeafSpawns(g, g.hex_entities, hex, d)} }

\* spawn_cross_gap_geometry, second loop: the triangle edge lines asked for
TriangleEdges(g, hex) ==
  UNION { LET coords == Coordinates(hex, v)
              v0 == g.vertex_positions[<<hex, v>>]
              v1 == FindEquivalentVertex(g, coords[2], hex, v)[1]
              v2 == FindEquivalentVertex(g, coords[3], hex, v)[1]
          IN  { << << "tri", v, 0 >>, v0, v1 >>,
                << << "tri", v, 1 >>, v1, v2 >>,
                << << "tri", v, 2 >>, v2, v0 >> } :
          v \in {d \in 0..5 : TriLeafSpawns(g, g.hex_entities, hex, d)} }

\* the leaves and hexes that have spawned edge lines so far
Leaves == { l.leaf[1] : l \in edgeLines }

InitEdges ==
  /\ cfg \in EdgeSettings
  /\ grid = EdgeGrid(cfg)
  /\ hexEntities = grid.hex_entities
  /\ pos = <<0, 0>>
  /\ cell = [current |-> ZERO, previous |-> None, changed |-> FALSE]
  /\ drawn = {}
  /\ quads = EmptyBag
  /\ tris = EmptyBag
  /\ intro = IntroNew
  /\ introDone = FALSE
  /\ inspector = FALSE
  /\ pc = "edges"
  /\ tracked = "none"
  /\ reveals = 0
  /\ lastReveal = None
  /\ probe = None
  /\ InitAux

\* spawn_quad_leaf of the terrain plugin (the petals plugin has the same
\* code): past its last `?` it spawns the four edge lines of the leaf
SpawnQuadLeaf(hex, edge_index) ==
  /\ pc = "edges"
  /\ Cardinality(Leaves) < MaxLeaves
  /\ QuadLeafSpawns(grid, hexEntities, hex, edge_index)
  /\ LET leaf == << "QuadLeaf", hex, edge_index >>
         asked == QuadLeafEdges(grid, hex, edge_index)
     IN  /\ leaf \notin Leaves
         /\ edgeLines' = edgeLines \cup
              UNION { SpawnEdgeLine(<< leaf, r[1] >>, r[2], r[3]) :
                      r \in asked }
         /\ probe' = Some([op |-> "spawn_edge_line", leaf |-> leaf,
                           asked |-> asked])
  /\ UNCHANGED << cfg, grid, hexEntities, pos, cell, drawn, quads, tris,
                  intro, introDone, inspector, pc, tracked, reveals,
                  lastReveal, flower, flowerLog >>

\* spawn_cross_gap_geometry of the edges plugin for one hex: the cross-gap
\* and the triangle edge lines, each through the spawn_edge_line that
\* returns early
SpawnCrossGapGeometry(hex) ==
  /\ pc = "edges"
  /\ Cardinality(Leaves) < MaxLeaves
  /\ hex \in DOMAIN grid.heights
  /\ LET leaf == << "CrossGap", hex, 0 >>
         asked == CrossGapEdges(grid, hex) \cup TriangleEdges(grid, hex)
     IN  /\ leaf \notin Leaves
         /\ edgeLines' = edgeLines \cup
              UNION { EdgesSpawnEdgeLine(<< leaf, r[1] >>, r[2], r[3]) :
                      r \in asked }
         /\ probe' = Some([op |-> "spawn_edge_line", leaf |-> leaf,
                           asked |-> asked])
  /\ UNCHANGED << cfg, grid, hexEntities, pos, cell, drawn, quads, tris,
                  intro, introDone, inspector, pc, tracked, reveals,
                  lastReveal, flower, flowerLog >>

NextEdges ==
  \/ \E hex \in DOMAIN grid.heights : \E edge_index \in 0..5 :
       SpawnQuadLeaf(hex, edge_index)
  \/ \E hex \in DOMAIN grid.heights : SpawnCrossGapGeometry(hex)

SpecEdges == InitEdges /\ [][NextEdges]_vars

\* ------------------------------------------- the intro, any durations
\* the configurations: durations that are not negative, and the camera
\* entity there or not
IntroSettings ==
  [intro : [tilt_up_duration : 0..MaxDuration,
            highlight_delay : 0..MaxDuration,
            tilt_down_duration : 0..MaxDuration],
   camera : BOOLEAN]

InitIntro ==
  /\ cfg \in IntroSettings
  /\ grid = GenerateGrid(0)
  /\ hexEntities = grid.hex_entities
  /\ pos = <<0, 0>>
  /\ cell = [current |-> ZERO, previous |-> None, changed |-> FALSE]
  /\ drawn = {}
  /\ quads = EmptyBag
  /\ tris = EmptyBag
  /\ intro = IntroNew
  /\ introDone = FALSE
  /\ inspector = FALSE
  /\ pc = "run_intro"
  /\ tracked = "none"
  /\ reveals = 0
  /\ lastReveal = None
  /\ probe = None
  /\ InitAux

\* run_intro in a frame of the delta dt
IntroFrame(dt) ==
  /\ pc = "run_intro"
  /\ intro' = RunIntroOf(cfg.intro, cfg.camera, intro, dt)
  /\ pc' = "move_camera"
  /\ UNCHANGED << cfg, grid, hexEntities, pos, cell, drawn, quads, tris,
                  introDone, inspector, tracked, hist, aux >>

\* the chain (move_camera, track_camera_cell) of the frame, which runs if
\* intro.done and the inspector is not active
CameraChain ==
  /\ pc = "move_camera"
  /\ tracked' = IF CameraChainRuns THEN "ran" ELSE "skipped"
  /\ pc' = "run_intro"
  /\ UNCHANGED << cfg, grid, hexEntities, pos, cell, drawn, quads, tris,
                  intro, introDone, inspector, hist, aux >>

\* a frame whose delta is positive
PositiveFrame == \E dt \in 1..MaxDt : IntroFrame(dt)

NextIntro ==
  \/ \E dt \in 0..MaxDt : IntroFrame(dt)
  \/ CameraChain

SpecIntro == InitIntro /\ [][NextIntro]_vars

\* the schedule runs every system of Update in every frame: a frame with a
\* positive delta comes again and again, and the frame at hand is finished
SpecIntroLive ==
  /\ SpecIntro
  /\ SF_vars(PositiveFrame)
  /\ WF_vars(CameraChain)

\* ----------------------------------------- frames with the player anywhere
\* indexing heights[&hex] and radii[&hex] panics for a hex without an entry
IndexPanics(g, hex) ==
  hex \notin DOMAIN g.heights \/ hex \notin DOMAIN g.radii

\* a ring loop that calls world_space_inverse for every hex of the ring
RingInverseCallsUnfiltered(g, he, dr, center, reveal_radius) ==
  Hexagon(center, reveal_radius)

\* the ring loop of spawn_petals: the hexes world_space_inverse is called
\* for, those past both `continue`s
RingInverseCalls(g, he, dr, center, reveal_radius) ==
  {hex \in RingNewHexes(g, dr, center, reveal_radius) : hex \in he}

\* spawn_petals of the terrain plugin: the centre of this frame's reveal
TerrainPetalsCenter(initial_done, c) ==
  IF ~ initial_done THEN Some(ZERO)
  ELSE IF c.changed THEN Some(c.current)
  ELSE None

\* the positions of the player: the centres of the hexes on two axes
ViewPoints ==
  {LayoutHexToWorldPos(PointSpacing, h) :
     h \in {<<q, 0>> : q \in -MaxViewDist..MaxViewDist}
           \cup {<<0, r>> : r \in -MaxViewDist..MaxViewDist}}

InitMissing ==
  /\ cfg \in [grid : {DefaultGridSettings(radius) :
                        radius \in 0..MaxGeomRadius},
              reveal_radius : {RevealRadius}]
  /\ grid = EdgeGrid(cfg.grid)
  /\ hexEntities = grid.hex_entities
  /\ pos = <<0, 0>>
  /\ cell = [current |-> ZERO, previous |-> None, changed |-> FALSE]
  /\ drawn = {}
  /\ quads = EmptyBag
  /\ tris = EmptyBag
  /\ intro = IntroNew
  /\ introDone = FALSE
  /\ inspector = FALSE
  /\ pc = "player_height"
  /\ tracked = "none"
  /\ reveals = 0
  /\ lastReveal = None
  /\ probe = None
  /\ InitAux

\* update_player_height, with the player at the position p this frame
UpdatePlayerHeight(p) ==
  /\ pc = "player_height"
  /\ reveals < MaxFrames
  /\ pos' = p
  /\ LET run == InterpolateRun(grid, p)
     IN  probe' = Some([op |-> "interpolate_height", pos |-> p,
                        result |-> run.value,
                        divisors |-> run.divisors,
                        quotient |-> run.quotient])
  /\ pc' = "track_hex"
  /\ UNCHANGED << cfg, grid, hexEntities, cell, drawn, quads, tris, intro,
                  introDone, inspector, tracked, reveals, lastReveal, aux >>

\* track_active_hex
TrackActiveHex ==
  /\ pc = "track_hex"
  /\ cell' = TrackCell(cell, LayoutWorldPosToHex(PointSpacing, pos))
  /\ tracked' = IF cell'.changed THEN "transition" ELSE "same"
  /\ pc' = "reveal_petals"
  /\ UNCHANGED << cfg, grid, hexEntities, pos, drawn, quads, tris, intro,
                  introDone, inspector, hist, aux >>

\* spawn_petals of the terrain plugin; a call of world_space_inverse for a
\* hex without a height or a radius ends the program
RevealPetals ==
  /\ pc = "reveal_petals"
  /\ LET center == TerrainPetalsCenter(introDone, cell)
         r == cfg.reveal_radius
     IN  /\ introDone' = TRUE
         /\ IF center = None
            THEN /\ pc' = "player_height"
                 /\ lastReveal' = None
                 /\ UNCHANGED << drawn, quads, tris >>
            ELSE LET calls == RingInverseCalls(grid, hexEntities, drawn,
                                               center[1], r)
                 IN  IF \E hex \in calls : IndexPanics(grid, hex)
                     THEN /\ pc' = "panicked"
                          /\ lastReveal' =
                               Some([center |-> center[1], fresh |-> {},
                                     inverse_of |-> calls])
                          /\ UNCHANGED << drawn, quads, tris >>
                     ELSE /\ pc' = "player_height"
                          /\ drawn' = drawn \cup
                               RingNewHexes(grid, drawn, center[1], r)
                          /\ quads' = quads (+) SetToBag(
                               RingQuads(grid, hexEntities, drawn,
                                         center[1], r))
                          /\ tris' = tris (+) SetToBag(
                               RingTris(grid, hexEntities, drawn,
                                        center[1], r))
                          /\ lastReveal' =
                               Some([center |-> center[1],
                                     fresh |-> RingNewHexes(grid, drawn,
                                                            center[1], r),
                                     inverse_of |-> calls])
  /\ reveals' = reveals + 1
  /\ UNCHANGED << cfg, grid, hexEntities, pos, cell, intro, inspector,
                  tracked, probe, aux >>

NextMissing ==
  \/ \E p \in ViewPoints : UpdatePlayerHeight(p)
  \/ TrackActiveHex
  \/ RevealPetals

SpecMissing == InitMissing /\ [][NextMissing]_vars

\* ------------------------------------------- reveal passes, any centres
\* generate_h_grid, pass 1: one corner entity per hex and corner index
CornerEntities(radius) == Hexagon(ZERO, radius) \X (0..5)

\* spawn_quad up to its last `?`
HSpawnQuad(f, corner_entities, hex, edge_index) ==
  LET neighbor == Neighbor(hex, edge_index)
      vertex_dirs == VertexDirections(edge_index)
      opp_vertex_dirs == VertexDirections(ConstNeg(edge_index))
      v0_idx == vertex_dirs[1]
      v1_idx == vertex_dirs[2]
      n0_idx == opp_vertex_dirs[2]
      n1_idx == opp_vertex_dirs[1]
  IN  /\ <<hex, v0_idx>> \in corner_entities
      /\ <<hex, v1_idx>> \in corner_entities
      /\ <<neighbor, n0_idx>> \in corner_entities
      /\ <<neighbor, n1_idx>> \in corner_entities
      /\ Vertex(f, hex, v0_idx) # None
      /\ Vertex(f, neighbor, n0_idx) # None
      /\ Vertex(f, neighbor, n1_idx) # None
      /\ Vertex(f, hex, v1_idx) # None

\* corner_index_for_vertex
CornerIndexForVertex(hex, o, v) == FirstEquivalentDir(0, hex, o, v)

\* spawn_tri up to its last `?`
HSpawnTri(f, corner_entities, hex, vertex_index) ==
  LET coords == Coordinates(hex, vertex_index)
      idx1 == CornerIndexForVertex(coords[2], hex, vertex_index)
      idx2 == CornerIndexForVertex(coords[3], hex, vertex_index)
  IN  /\ coords[1] = hex
      /\ idx1 # None
      /\ idx2 # None
      /\ <<hex, vertex_index>> \in corner_entities
      /\ <<coords[2], idx1[1]>> \in corner_entities
      /\ <<coords[3], idx2[1]>> \in corner_entities
      /\ Vertex(f, coords[1], vertex_index) # None
      /\ Vertex(f, coords[2], idx1[1]) # None
      /\ Vertex(f, coords[3], idx2[1]) # None

\* the centres of the reveal passes
Centers == Hexagon(ZERO, MaxCenterDist)

InitReveal ==
  /\ cfg \in [grid_radius : 0..MaxFieldRadius,
              reveal_radius : 1..MaxRevealRadius]
  /\ LET g == GenerateGrid(cfg.grid_radius)
     IN  /\ grid = [heights |-> g.heights, radii |-> g.radii,
                    vertex_positions |-> g.vertex_positions]
         /\ hexEntities = g.hex_entities
  /\ pos = <<0, 0>>
  /\ cell = [current |-> ZERO, previous |-> None, changed |-> FALSE]
  /\ drawn = {}
  /\ quads = EmptyBag
  /\ tris = EmptyBag
  /\ intro = IntroNew
  /\ introDone = FALSE
  /\ inspector = FALSE
  /\ pc = "reveal"
  /\ tracked = "none"
  /\ reveals = 0
  /\ lastReveal = None
  /\ probe = None
  /\ InitAux

\* the ring loop of spawn_petals, run about the given centre
RevealAt(center) ==
  /\ pc = "reveal"
  /\ reveals < MaxReveals
  /\ drawn' = drawn \cup RingNewHexes(grid, drawn, center, cfg.reveal_radius)
  /\ quads' = quads (+) SetToBag(
        RingQuads(grid, hexEntities, drawn, center, cfg.reveal_radius))
  /\ tris' = tris (+) SetToBag(
        RingTris(grid, hexEntities, drawn, center, cfg.reveal_radius))
  /\ reveals' = reveals + 1
  /\ lastReveal' =
        Some([center |-> center,
              fresh |-> RingNewHexes(grid, drawn, center, cfg.reveal_radius)])
  /\ UNCHANGED << cfg, grid, hexEntities, pos, cell, intro, introDone,
                  inspector, pc, tracked, probe, aux >>

\* generate_h_grid, pass 2: the quads and tris of every hex of the region are
\* spawned at startup; there is no reveal afterwards
GenerateHGrid ==
  /\ pc = "reveal"
  /\ reveals = 0
  /\ LET corner_entities == CornerEntities(cfg.grid_radius)
         region == Hexagon(ZERO, cfg.grid_radius)
     IN  /\ quads' = SetToBag({k \in region \X QuadEdges :
                        HSpawnQuad(grid, corner_entities, k[1], k[2])})
         /\ tris' = SetToBag({k \in region \X TriVertices :
                        HSpawnTri(grid, corner_entities, k[1], k[2])})
         /\ drawn' = region
  /\ pc' = "generated"
  /\ UNCHANGED << cfg, grid, hexEntities, pos, cell, intro, introDone,
                  inspector, tracked, hist, aux >>

NextReveal ==
  \/ \E center \in Centers : RevealAt(center)
  \/ GenerateHGrid

SpecReveal == InitReveal /\ [][NextReveal]_vars

\* ------------------------------------------------- properties of the loop
\* the hexes of the field within distance r of hex c
FieldBall(c, r) == {h \in DOMAIN grid.heights : HexDistance(h, c) <= r}

\* the frame is over: every system of the frame has run
FrameEnd == pc = "toggle_inspector"

\* C1: a Track step with new_hex = world_pos_to_hex(viewpoint) sets
\* previous = Some(old current), current = new_hex and changed = true when
\* new_hex differs from current or previous is None; otherwise it sets
\* changed = false and leaves current and previous alone.
C1_TrackStep ==
  [][pc = "track_camera_cell" =>
       LET new_hex == WorldPosToHex(pos)
       IN  IF new_hex # cell.current \/ cell.previous = None
           THEN /\ cell'.previous = Some(cell.current)
                /\ cell'.current = new_hex
                /\ cell'.changed = TRUE
           ELSE /\ cell'.changed = FALSE
                /\ cell'.current = cell.current
                /\ cell'.previous = cell.previous]_vars

\* C1 witness: Track has recorded the crossing from one hex into another
C1_Witness ==
  /\ tracked = "transition"
  /\ cell.previous # None
  /\ cell.previous # Some(cell.current)
  /\ cell.current = WorldPosToHex(pos)

\* C2: whenever the Reveal system reads changed in a frame in which Track
\* did not just record a transition (Track found the same hex, or was gated
\* off by the intro or the inspector), changed is false.
C2_ChangedOneFrame ==
  (pc = "spawn_petals" /\ tracked # "transition") => ~ cell.changed

\* C2 witness: the inspector is open, Track was skipped this frame, and the
\* Reveal system is about to read changed, left true by an earlier frame
C2_Witness ==
  /\ pc = "spawn_petals"
  /\ tracked = "skipped"
  /\ inspector
  /\ intro.done
  /\ cell.changed

\* C3: the initial draw covers the field around the origin, and at the end
\* of every frame in which Track set changed, every hex of the field within
\* reveal_radius of current is in drawn.
C3_RevealCovers ==
  /\ introDone => FieldBall(ZERO, cfg.reveal_radius) \subseteq drawn
  /\ ~ introDone => drawn = {}
  /\ (FrameEnd /\ tracked = "transition") =>
        FieldBall(cell.current, cfg.reveal_radius) \subseteq drawn

\* C3 witness: a frame ends in which Track moved to a hex other than the
\* origin and the reveal has drawn hexes the initial draw did not
C3_Witness ==
  /\ FrameEnd
  /\ tracked = "transition"
  /\ cell.current # ZERO
  /\ ~ (drawn \subseteq FieldBall(ZERO, cfg.reveal_radius))
  /\ FieldBall(cell.current, cfg.reveal_radius) \subseteq drawn

\* C5: drawn only grows, and no spawned petal is ever despawned.
C5_DrawnGrows ==
  [][/\ drawn \subseteq drawn'
     /\ quads \sqsubseteq quads'
     /\ tris \sqsubseteq tris']_vars

\* C5 witness: after the initial draw a later reveal has added hexes and
\* petals, and everything drawn before is still there
C5_Witness ==
  /\ FieldBall(ZERO, cfg.reveal_radius) \subseteq drawn
  /\ drawn # FieldBall(ZERO, cfg.reveal_radius)
  /\ BagCardinality(quads) > 12
  /\ FrameEnd

\* ------------------------------------------ properties of reveal passes
\* number of entities of bag B whose key lies in S
CountIn(B, S) ==
  BagCardinality([k \in S \cap BagToSet(B) |-> CopiesIn(k, B)])

\* the two hexes a quad petal joins, the three a tri petal joins
QuadEdgeOf(k) == {k[1], Neighbor(k[1], k[2])}
TriJunctionOf(k) ==
  {Coordinates(k[1], k[2])[1], Coordinates(k[1], k[2])[2],
   Coordinates(k[1], k[2])[3]}

\* the unordered pairs of adjacent hexes of the region f
InteriorEdges(f) ==
  UNION {{{a, b} : b \in {x \in f : HexDistance(a, x) = 1}} : a \in f}

\* the sets of three mutually adjacent hexes of the region f
InteriorJunctions(f) ==
  {j \in {{a, HexAdd(a, NEIGHBORS_COORDS[i]), HexAdd(a, NEIGHBORS_COORDS[n])} :
             a \in f, i \in 1..6, n \in 1..6} :
     /\ j \subseteq f
     /\ Cardinality(j) = 3
     /\ \A a \in j : \A b \in j : a # b => HexDistance(a, b) = 1}

Field == DOMAIN grid.heights

\* C4: no (owner, edge) quad and no (owner, vertex) tri is spawned twice,
\* and a reveal pass whose ring holds only drawn hexes spawns nothing and
\* leaves drawn unchanged.
C4_SpawnedOnce ==
  [][/\ \A k \in BagToSet(quads') : CopiesIn(k, quads') = 1
     /\ \A k \in BagToSet(tris') : CopiesIn(k, tris') = 1
     /\ (/\ pc' = "reveal"
         /\ reveals' = reveals + 1
         /\ FieldBall(lastReveal'[1].center, cfg.reveal_radius)
               \subseteq drawn)
        => (drawn' = drawn /\ quads' = quads /\ tris' = tris)]_vars

\* C4 witness: the second pass found its whole ring drawn, the petals of
\* the first pass are there
C4_Witness ==
  /\ reveals = 2
  /\ lastReveal[1].fresh = {}
  /\ FieldBall(lastReveal[1].center, cfg.reveal_radius) # {}
  /\ BagCardinality(quads) > 0
  /\ BagCardinality(tris) > 0

\* C6: once every hex of a region of radius >= 3 has had its petals
\* spawned, every interior edge has exactly one quad petal, there are as
\* many quad petals as interior edges, and no quad lies on a boundary edge.
C6_QuadCompleteness ==
  (cfg.grid_radius >= 3 /\ drawn = Field) =>
     /\ \A e \in InteriorEdges(Field) :
          CountIn(quads, {k \in e \X (0..5) : QuadEdgeOf(k) = e}) = 1
     /\ BagCardinality(quads) = Cardinality(InteriorEdges(Field))
     /\ \A k \in BagToSet(quads) :
          /\ QuadEdgeOf(k) \subseteq Field
          /\ Cardinality(QuadEdgeOf(k)) = 2

\* C6 witness: a region of radius 3 fully drawn by two reveal passes
C6_Witness ==
  /\ cfg.grid_radius = 3
  /\ drawn = Field
  /\ reveals = 2
  /\ lastReveal[1].fresh # {}
  /\ lastReveal[1].fresh # Field
  /\ BagCardinality(quads) = 90

\* C7: once every hex of a region of radius >= 3 has had its petals
\* spawned, every interior junction of three hexes has exactly one tri
\* petal and there are as many tri petals as interior junctions.
C7_TriCompleteness ==
  (cfg.grid_radius >= 3 /\ drawn = Field) =>
     /\ \A j \in InteriorJunctions(Field) :
          CountIn(tris, {k \in j \X (0..5) : TriJunctionOf(k) = j}) = 1
     /\ BagCardinality(tris) = Cardinality(InteriorJunctions(Field))

\* C7 witness: a region of radius 3 whose every hex was visited by the
\* startup generation
C7_Witness ==
  /\ cfg.grid_radius = 3
  /\ drawn = Field
  /\ pc = "generated"
  /\ BagCardinality(tris) = 54

\* the scenario of C8: a region of radius 1, one reveal pass about the
\* origin with reveal radius 1
C8_Scenario ==
  /\ cfg.grid_radius = 1
  /\ cfg.reveal_radius = 1
  /\ pc = "reveal"
  /\ reveals = 1
  /\ lastReveal[1].center = ZERO

\* C8 as stated: in the scenario there are exactly 6 quad petals and
\* exactly 6 tri petals.
C8_SixQuads ==
  C8_Scenario => (BagCardinality(quads) = 6 /\ BagCardinality(tris) = 6)

\* C8: in the scenario there are exactly 12 quad petals, one for each of the
\* 6 edges between the centre and the ring and one for each of the 6 edges
\* between consecutive ring hexes, and exactly 6 tri petals.
C8_TwelveQuads ==
  C8_Scenario =>
     /\ BagCardinality(quads) = 12
     /\ BagCardinality(tris) = 6
     /\ CountIn(quads, {k \in Field \X (0..5) : ZERO \in QuadEdgeOf(k)}) = 6
     /\ CountIn(quads, {k \in Field \X (0..5) : ZERO \notin QuadEdgeOf(k)}) = 6

\* C8 witness: the scenario, all 7 hexes drawn by the one pass
C8_Witness ==
  /\ C8_Scenario
  /\ Cardinality(Field) = 7
  /\ lastReveal[1].fresh = Field
  /\ drawn = Field

\* ----------------------------------------- properties of the terrain field
\* C9: the hexes with a height are the hexes with a radius are the hexagon
\* of radius grid_radius about the origin, 3R(R+1)+1 hexes and none outside
\* it, and the field is never modified.
C9_FieldIsHexagon ==
  /\ [](/\ DOMAIN grid.heights = DOMAIN grid.radii
        /\ DOMAIN grid.heights =
             {h \in (-cfg.grid_radius - 1 .. cfg.grid_radius + 1)
                      \X (-cfg.grid_radius - 1 .. cfg.grid_radius + 1) :
                HexLength(h) <= cfg.grid_radius}
        /\ Cardinality(DOMAIN grid.heights) =
             3 * cfg.grid_radius * (cfg.grid_radius + 1) + 1)
  /\ [][grid' = grid]_vars

\* C9 witness: a field of radius 2 or more, after a lookup
C9_Witness ==
  /\ pc = "field"
  /\ cfg.grid_radius >= 2
  /\ probe # None
  /\ Cardinality(DOMAIN grid.heights) >= 19

\* C10: for a hex absent from the field contains is false and height,
\* radius and vertex are None; for a hex present contains is true and
\* height, radius and vertex are Some.
C10_Lookups ==
  probe # None =>
    IF HexLength(probe[1].hex) > cfg.grid_radius
    THEN /\ probe[1].contains = FALSE
         /\ probe[1].height = None
         /\ probe[1].radius = None
         /\ probe[1].vertex = None
    ELSE /\ probe[1].contains = TRUE
         /\ probe[1].height # None
         /\ probe[1].radius # None
         /\ probe[1].vertex # None

\* C10 witness: a lookup of a hex just outside a field of radius 1 or more
C10_Witness ==
  /\ pc = "field"
  /\ probe # None
  /\ cfg.grid_radius >= 1
  /\ HexLength(probe[1].hex) = cfg.grid_radius + 1
  /\ probe[1].height = None
  /\ probe[1].index = 5

\* C11: for every present hex and corner index i, vertex(hex, i) is
\* (center.x + unit_corner[i].x * radius, height, center.y +
\* unit_corner[i].y * radius) with center = hex_to_world_pos(hex): it lies
\* at the distance radius from the centre, and all six vertices of a hex
\* have the hex's stored height as their y.
C11_VertexFormula ==
  /\ probe # None /\ probe[1].contains =>
       LET hex == probe[1].hex
           i == probe[1].index
           center == LayoutHexToWorldPos(PointSpacing, hex)
           v == probe[1].vertex[1]
           dX == v[1] - center[1]
           dZ == v[3] - center[2]
       IN  /\ v[1] = center[1] + UnitCorners[i + 1][1] * grid.radii[hex] * Fine
           /\ v[2] = grid.heights[hex]
           /\ v[3] = center[2] + UnitCorners[i + 1][2] * grid.radii[hex] * Fine
           /\ dX * dX + 3 * dZ * dZ =
                4 * Fine * Fine * grid.radii[hex] * grid.radii[hex]
  /\ \A hex \in DOMAIN grid.heights :
       \A i \in 0..5 : Vertex(grid, hex, i)[1][2] = grid.heights[hex]

\* C11 witness: the vertex 4 of a hex away from the origin whose radius is
\* not the least one
C11_Witness ==
  /\ pc = "field"
  /\ probe # None
  /\ probe[1].contains
  /\ probe[1].hex # ZERO
  /\ probe[1].index = 4
  /\ grid.radii[probe[1].hex] > MinHexRadius
  /\ probe[1].vertex[1][2] = grid.heights[probe[1].hex]

\* ------------------------------------- properties of the field's geometry
\* the latest query is a call of interpolate_height
Interpolated == probe # None /\ probe[1].op = "interpolate_height"

\* the hex that holds the position of the latest query
ProbeHex == LayoutWorldPosToHex(PointSpacing, probe[1].pos)

\* the hex that the step k of the enumeration looks at: the hex of the
\* position for k < 6, then its neighbours in the order of their directions
ProbeHexAt(k) ==
  IF k < 6 THEN ProbeHex
  ELSE HexAdd(ProbeHex, NEIGHBORS_COORDS[k \div 6])

\* the steps of the enumeration that find a vertex
ProbeCandidates == {k \in 0..41 : ProbeHexAt(k) \in DOMAIN grid.heights}

\* the steps that find a vertex at a squared distance under 0.001 from the
\* position
ProbeClose ==
  {k \in ProbeCandidates :
     LET v == Vertex(grid, ProbeHexAt(k), k % 6)[1]
         dx == probe[1].pos[1] - v[1]
         dz == probe[1].pos[2] - v[3]
     IN  1000 * (dx * dx + 3 * dz * dz) < 4 * Fine * Fine * 100}

\* C12: when some candidate vertex lies at a squared distance under 0.001
\* from the position, interpolate_height returns the height of the first
\* such vertex of the enumeration (the hex of the position first, then its
\* neighbours, corners 0..5), whatever was accumulated before it.
C12_SnapToFirstVertex ==
  Interpolated /\ ProbeClose # {} =>
    LET first == CHOOSE k \in ProbeClose : \A j \in ProbeClose : k <= j
    IN  probe[1].result = Rat(grid.heights[ProbeHexAt(first)])

\* C12 witness: a position off a vertex but within the snap distance of it,
\* where vertices of three hexes of different heights meet and corners
\* further away were accumulated first
C12_Witness ==
  /\ Interpolated
  /\ Cardinality(ProbeClose) >= 3
  /\ Cardinality({grid.heights[ProbeHexAt(k)] : k \in ProbeClose}) >= 2
  /\ \A k \in ProbeClose : k % 6 # 0
  /\ \A k \in ProbeClose :
       << probe[1].pos[1], grid.heights[ProbeHexAt(k)], probe[1].pos[2] >>
         # Vertex(grid, ProbeHexAt(k), k % 6)[1]
  /\ probe[1].result[2] = 1

C14_Fallback ==
  Interpolated =>
    /\ ProbeCandidates = {} =>
         probe[1].result =
           IF ProbeHex \in DOMAIN grid.heights
           THEN Rat(grid.heights[ProbeHex]) ELSE Rat(0)
    /\ (\A h \in DOMAIN grid.heights : grid.heights[h] >= 0) =>
         /\ probe[1].result[2] > 0
         /\ probe[1].result[1] >= 0

\* C14 witness: a position two hexes outside of a field of 7 hexes
C14_Witness ==
  /\ Interpolated
  /\ cfg.radius = 1
  /\ HexLength(ProbeHex) = 3
  /\ ProbeCandidates = {}
  /\ probe[1].result = Rat(0)

C16_LayoutRoundTrip ==
  (probe # None /\ probe[1].op = "roundtrip"
     /\ probe[1].hex \in DOMAIN grid.heights) =>
    probe[1].back = probe[1].hex

\* C16 witness: a hex of the region away from both axes, whose centre is
\* not the origin of the plane
C16_Witness ==
  /\ probe # None
  /\ probe[1].op = "roundtrip"
  /\ probe[1].hex \in DOMAIN grid.heights
  /\ probe[1].hex[1] # 0
  /\ probe[1].hex[2] # 0
  /\ probe[1].world[1] # 0
  /\ probe[1].world[2] # 0
  /\ probe[1].back = probe[1].hex

\* ------------------------------------------ properties of the math helpers
\* the latest call is one of map_noise_to_range
Remapped == probe # None /\ probe[1].op = "map_noise_to_range"

\* the integer n is an f32 number
IsF32(n) == RoundF32(n) = n

\* C17, as stated: for all (min, max), map_noise_to_range(-1, min, max) is
\* min, map_noise_to_range(1, min, max) is max and map_noise_to_range(0,
\* min, max) is (min + max) / 2.
C17_NoiseBounds ==
  Remapped =>
    /\ probe[1].noise2 = -2 => probe[1].result = probe[1].min
    /\ probe[1].noise2 = 2 => probe[1].result = probe[1].max
    /\ probe[1].noise2 = 0 =>
         2 * probe[1].result = probe[1].min + probe[1].max

\* what the f32 arithmetic does give: map_noise_to_range(-1, min, max) is
\* min for all (min, max); map_noise_to_range(1, min, max) is max when
\* max - min is an f32 number; map_noise_to_range(0, min, max) is
\* (min + max) / 2 when max - min and (min + max) / 2 are f32 numbers
NoiseBoundsF32 ==
  Remapped =>
    LET min == probe[1].min
        max == probe[1].max
    IN  /\ probe[1].noise2 = -2 => probe[1].result = min
        /\ (probe[1].noise2 = 2 /\ IsF32(max - min)) =>
             probe[1].result = max
        /\ (probe[1].noise2 = 0 /\ IsF32(max - min)
               /\ (min + max) % 2 = 0 /\ IsF32((min + max) \div 2)) =>
             2 * probe[1].result = min + max

\* C17 witness: the noise value 1 remapped to a range whose ends are f32
\* numbers, and the result is not max
C17_Witness ==
  /\ Remapped
  /\ probe[1].noise2 = 2
  /\ IsF32(probe[1].min)
  /\ IsF32(probe[1].max)
  /\ probe[1].result # probe[1].max

\* C18: pole_geometry returns None exactly when face_height - gap <= 0, and
\* otherwise Some with radius = hex_radius * radius_factor, height =
\* face_height - gap and y_center = height / 2; the grid generator has
\* spawned a pole for a hex exactly when the result for the hex is Some.
C18_PoleGeometry ==
  /\ (probe # None /\ probe[1].op = "pole_geometry") =>
       LET a == probe[1]
       IN  IF a.face_height - a.gap <= 0 THEN a.result = None
           ELSE /\ a.result # None
                /\ RatEq(a.result[1].radius,
                         RatMul(Rat(a.hex_radius), a.radius_factor))
                /\ a.result[1].height = a.face_height - a.gap
                /\ RatEq(a.result[1].y_center,
                         << a.result[1].height, 2 >>)
  /\ pc = "math" =>
       \A hex \in DOMAIN grid.heights :
         hex \in grid.poles <=>
           PoleGeometry(10 * grid.radii[hex], 10 * grid.heights[hex],
                        PoleRadiusFactor, PoleGap) # None

\* C18 witness: a face just as high as the gap, and a grid with a hex that
\* has a pole and a hex that has none
C18_Witness ==
  /\ probe # None
  /\ probe[1].op = "pole_geometry"
  /\ probe[1].gap > 0
  /\ probe[1].face_height = probe[1].gap
  /\ probe[1].result = None
  /\ grid.poles # {}
  /\ grid.poles # DOMAIN grid.heights

\* ------------------------------------------------ properties of FlowerState
\* C19: after any sequence of promote, demote and fill_petals calls on a
\* state that starts as Naked, needs_petals() is true if and only if no
\* fill_petals call has taken effect so far.
C19_NeedsPetals ==
  pc = "flower" => (NeedsPetals(flower) <=> ~flowerLog.filled)

\* C19 witness: promote and demote have run, no fill_petals call has been
\* made, and needs_petals() is false
C19_Witness ==
  /\ pc = "flower"
  /\ flowerLog = [calls |-> << "promote", "demote" >>, filled |-> FALSE]
  /\ flower = [tag |-> "Revealed", petals |-> << >>]
  /\ ~NeedsPetals(flower)

\* what does hold of needs_petals: a state that holds petals never needs
\* them, and a state no call has changed needs them
NeedsPetalsOfPetals ==
  pc = "flower" =>
    /\ flower.petals # << >> => ~NeedsPetals(flower) /\ flowerLog.filled
    /\ flower = Naked => NeedsPetals(flower)

\* ------------------------------------------------- properties of edge lines
\* the latest call has asked for edge lines
Asked == probe # None /\ probe[1].op = "spawn_edge_line"

\* C20: whenever an edge line is requested between endpoints with
\* length(to - from) < 1e-3 no edge entity is spawned, and every spawned
\* edge line has a length >= 1e-3 and a well-defined rotation.
C20_ZeroLengthOmitted ==
  pc = "edges" =>
    /\ Asked =>
         \A r \in probe[1].asked :
           Degenerate(LengthSq(r[2], r[3])) =>
             ~\E l \in edgeLines : l.leaf = << probe[1].leaf, r[1] >>
    /\ \A l \in edgeLines :
         ~Degenerate(l.length_sq) /\ l.rotation # "NaN"

\* C20 witness: a quad leaf has asked for an edge line between two equal
\* endpoints, and the line is spawned, with a NaN rotation
C20_Witness ==
  /\ pc = "edges"
  /\ Asked
  /\ probe[1].leaf[1] = "QuadLeaf"
  /\ \E r \in probe[1].asked :
       /\ r[2] = r[3]
       /\ \E l \in edgeLines :
            /\ l.leaf = << probe[1].leaf, r[1] >>
            /\ l.from = r[2]
            /\ l.to = r[3]
            /\ l.length_sq = 0
            /\ l.rotation = "NaN"

\* what does hold: the edge lines of the edges plugin are never short, and
\* with the default hex radii no short edge line is asked for at all
EdgesPluginOmits ==
  pc = "edges" =>
    /\ \A l \in edgeLines :
         l.leaf[1][1] = "CrossGap" =>
           ~Degenerate(l.length_sq) /\ l.rotation # "NaN"
    /\ (cfg.min_hex_radius = MinHexRadius /\ Asked) =>
         \A r \in probe[1].asked : ~Degenerate(LengthSq(r[2], r[3]))

\* the edges plugin has left a short edge line out
EdgesPluginOmitsWitness ==
  /\ Asked
  /\ probe[1].leaf[1] = "CrossGap"
  /\ \E r \in probe[1].asked :
       /\ r[2] = r[3]
       /\ ~\E l \in edgeLines : l.leaf = << probe[1].leaf, r[1] >>

\* ------------------------------------------- properties of the grid boundary
\* C21: a quad petal for (h, e) is spawned only if h.neighbor(e) exists and
\* a tri petal only if all three hexes of its junction exist; a suppressed
\* petal has no other effect: the hex is still marked drawn and its
\* remaining petals are still spawned.
C21_BoundaryGuard ==
  /\ \A k \in BagToSet(quads) : Neighbor(k[1], k[2]) \in Field
  /\ \A k \in BagToSet(tris) : TriJunctionOf(k) \subseteq Field
  /\ (pc = "reveal" /\ lastReveal # None) =>
       /\ lastReveal[1].fresh \subseteq drawn
       /\ FieldBall(lastReveal[1].center, cfg.reveal_radius) \subseteq drawn
       /\ \A h \in drawn :
            /\ \A e \in QuadEdges :
                 Neighbor(h, e) \in Field => <<h, e>> \in BagToSet(quads)
            /\ \A v \in TriVertices :
                 TriJunctionOf(<<h, v>>) \subseteq Field =>
                   <<h, v>> \in BagToSet(tris)

\* C21 witness: a reveal pass has drawn a hex of the boundary, with a quad
\* and a tri petal suppressed and a quad and a tri petal spawned
C21_Witness ==
  /\ pc = "reveal"
  /\ lastReveal # None
  /\ \E h \in lastReveal[1].fresh :
       /\ h \in drawn
       /\ \E e \in QuadEdges :
            Neighbor(h, e) \notin Field /\ <<h, e>> \notin BagToSet(quads)
       /\ \E e \in QuadEdges : <<h, e>> \in BagToSet(quads)
       /\ \E v \in TriVertices :
            /\ ~(TriJunctionOf(<<h, v>>) \subseteq Field)
            /\ <<h, v>> \notin BagToSet(tris)
       /\ \E v \in TriVertices : <<h, v>> \in BagToSet(tris)

\* ------------------------------------------- properties of the petal nodes
\* the edge lines and the faces of a petal node, its own mesh included
EdgeLinesOf(n) == n.perimeter + n.cross_gap
FacesOf(n) == n.face + (IF n.mesh THEN 1 ELSE 0)
ChildrenOf(n) == n.perimeter + n.cross_gap + n.face

PetalsPluginComposition ==
  \A k \in BagToSet(quads) :
    LET n == ModeQuadLeafNode(cfg.render_mode, k[1], k[2])
    IN  /\ ChildrenOf(n) = (CASE cfg.render_mode = "Perimeter" -> 2
                              [] cfg.render_mode = "CrossGap" -> 3
                              [] cfg.render_mode = "Full" -> 5)
        /\ n.parent = k[1] /\ n.parent \in hexEntities

\* ------------------------------------------- properties of the divisions
\* C23: interpolate_height never divides by zero: the weight 1 / dist_sq is
\* computed only for vertices with dist_sq >= 0.001, and the quotient
\* weighted_sum / weight_total only when weight_total > 0.
C23_NoDivisionByZero ==
  Interpolated =>
    /\ \A d \in probe[1].divisors : d > 0 /\ 10 * d >= 4 * Fine * Fine
    /\ probe[1].quotient # None => probe[1].quotient[1] > 0

\* C23 witness: a call that has computed weights and the final quotient,
\* for a position next to a vertex but not within the snap distance
C23_Witness ==
  /\ Interpolated
  /\ probe[1].divisors # {}
  /\ \E d \in probe[1].divisors : 10 * d < 16 * Fine * Fine
  /\ probe[1].quotient # None
  /\ probe[1].result[2] = probe[1].quotient[1]

\* ------------------------------------------- properties of missing data
\* the hex of the player
PlayerHex == LayoutWorldPosToHex(PointSpacing, pos)

\* C24: for any position of the viewpoint, positions whose hex or whose
\* reveal ring lies partly or wholly outside the generated region included,
\* Track, Reveal and interpolate_height complete without a panic:
\* world_space_inverse and the indexing heights[hex], radii[hex] are only
\* evaluated for hexes that have an entry in both maps.
C24_NeverFatal ==
  /\ pc # "panicked"
  /\ lastReveal # None =>
       \A hex \in lastReveal[1].inverse_of : ~IndexPanics(grid, hex)
  /\ (pc = "reveal_petals" \/ tracked # "none") => cell.previous # None
  /\ pc = "reveal_petals" => cell.current = PlayerHex
  /\ (pc = "track_hex" /\ Interpolated) =>
       /\ probe[1].result[2] > 0
       /\ probe[1].quotient # None => probe[1].quotient[1] > 0

\* C24 witness: the player is over a hex outside of the region, the height
\* there came from the fallback, the hex is tracked and the reveal about it
\* found its whole ring outside of the region and has drawn nothing
C24_Witness ==
  /\ pc = "player_height"
  /\ reveals = 2
  /\ PlayerHex \notin DOMAIN grid.heights
  /\ cell.current = PlayerHex
  /\ Interpolated
  /\ probe[1].quotient = None
  /\ lastReveal # None
  /\ lastReveal[1].center = PlayerHex
  /\ Hexagon(PlayerHex, cfg.reveal_radius) \cap DOMAIN grid.heights = {}
  /\ lastReveal[1].inverse_of = {}
  /\ drawn # {}

\* a reveal about a hex of the border, its ring partly outside of the region
RingPartlyOutside ==
  /\ lastReveal # None
  /\ lastReveal[1].inverse_of # {}
  /\ ~(Hexagon(lastReveal[1].center, cfg.reveal_radius)
         \subseteq DOMAIN grid.heights)

\* ------------------------------------------------- properties of the poles
\* the unit cylinder of the pole mesh: radius 0.5 and height 1.0, in tenths
CylinderRadius == 5
CylinderHalfHeight == 5

\* a rational in lowest terms
RECURSIVE Gcd(_, _)
Gcd(a, b) == IF b = 0 THEN a ELSE Gcd(b, a % b)
Lowest(a) ==
  LET g == Gcd(Abs(a[1]), Abs(a[2]))
  IN  IF g = 0 THEN a ELSE << a[1] \div g, a[2] \div g >>

Called(name) == flowerLog'.calls = Append(flowerLog.calls, name)

PhaseOrder ==
  { << "TiltUp", "HighlightDelay" >>, << "HighlightDelay", "TiltDown" >>,
    << "TiltDown", "Done" >> }

\* C27: the phase of the intro only advances in the order TiltUp,
\* HighlightDelay, TiltDown, Done, one phase per step, and the timer is 0
\* on entering HighlightDelay and TiltDown; run_intro changes nothing once
\* the phase is Done; the flag done is true if and only if the phase is
\* Done.
C27_PhaseOrder ==
  /\ [](intro.done <=> intro.phase = "Done")
  /\ [][ /\ intro'.phase # intro.phase =>
              /\ << intro.phase, intro'.phase >> \in PhaseOrder
              /\ intro'.phase \in {"HighlightDelay", "TiltDown"} =>
                   intro'.timer = 0
         /\ intro.phase = "Done" => intro' = intro
       ]_vars

\* C27 witness: the intro has gone through its phases with a delay of zero
\* and is Done, and a later frame has run
C27_Witness ==
  /\ cfg.intro.highlight_delay = 0
  /\ cfg.intro.tilt_up_duration > MaxDt
  /\ intro.phase = "Done"
  /\ intro.done
  /\ intro.initial_draw_triggered
  /\ tracked = "ran"
  /\ pc = "move_camera"

\* C29: if the camera entity exists and frames with positive deltas keep
\* arriving, the intro reaches Done for any durations that are not
\* negative, and stays there; after that the chain of move_camera and
\* track_camera_cell runs.
C29_IntroLiveness ==
  /\ cfg.camera => <>[](intro.done /\ intro.phase = "Done")
  /\ (intro.done /\ pc = "move_camera") ~> (tracked = "ran")

\* C29 witness: every duration is zero, and the chain has run after three
\* frames
C29_Witness ==
  /\ cfg.camera
  /\ cfg.intro.tilt_up_duration = 0
  /\ cfg.intro.highlight_delay = 0
  /\ cfg.intro.tilt_down_duration = 0
  /\ intro.done
  /\ tracked = "ran"

\* without the camera entity the intro stays in TiltUp
NoCameraNoIntro == ~ cfg.camera => [](intro = IntroNew)

\* ------------------------------------------ properties of the initial draw
\* the step is a run of spawn_petals
PetalsStep == pc = "spawn_petals" /\ pc' = "toggle_inspector"

C30_DrawnHaveDiscs ==
  /\ drawn \subseteq Field
  /\ hexEntities = Field
  /\ drawn \subseteq hexEntities
  /\ pc = "reveal" =>
       \A h \in drawn :
         /\ \A e \in QuadEdges :
              <<h, e>> \in BagToSet(quads)
                <=> QuadLeafSpawns(grid, hexEntities, h, e)
         /\ \A v \in TriVertices :
              <<h, v>> \in BagToSet(tris)
                <=> TriLeafSpawns(grid, hexEntities, h, v)

\* C30 witness: two reveal passes have drawn the whole field, the hexes of
\* its border included, and a hex inside owns its three quad petals and its
\* two tri petals
C30_Witness ==
  /\ pc = "reveal"
  /\ reveals = 2
  /\ cfg.grid_radius >= 1
  /\ drawn = Field
  /\ drawn = hexEntities
  /\ \E h \in drawn :
       /\ \A e \in QuadEdges : <<h, e>> \in BagToSet(quads)
       /\ \A v \in TriVertices : <<h, v>> \in BagToSet(tris)

====
